---- MODULE Spec2Model ----
(***************************************************************************)
(* A model of the AI README Generator extension: the generation            *)
(* orchestrator with its two backend clients (Groq, OpenRouter), the       *)
(* README version store, and the project classifier.                       *)
(*                                                                         *)
(* Texts are sequences of parts (strings); the empty text is <<>>.         *)
(* Confidences are in hundredths (0.85 is 85).                             *)
(***************************************************************************)
EXTENDS Integers, Sequences, FiniteSets, TLC

VARIABLES
    \* ---- credential store (utils/secretStorage) ----
    groqKey,      \* TRUE iff a non-empty Groq key is stored (HUGGINGFACE_API_KEY_SECRET)
    orKey,        \* TRUE iff a non-empty OpenRouter key is stored
    provider,     \* stored API provider: "unset", "huggingface" or "openrouter"
    \* ---- backend clients: module-level cursors ----
    cursor,       \* cursor[c]: currentModelIndex of client c (0-based)
    \* ---- the generation call in flight ----
    pc,           \* position of the call
    entry,        \* "generateReadme" or "client" (the client called directly)
    client,       \* the backend client the call runs in, or "none"
    log,          \* callbacks delivered in this call (runs of onToken are one entry)
    reqs,         \* model indices of the requests issued in this call, in order
    received,     \* OpenRouter stream: "none", "blank" or "text" accumulated so far
    resp,         \* the response to the last request (NoResp while it is awaited)
    cursorAtEntry,\* cursor of the called client as the earlier calls left it
    projectName,  \* ProjectInfo.name of the call ("" when the scanner found none)
    hadCredential,\* TRUE iff a credential was stored when the call was made
    \* ---- version store of one project root (history/historyManager) ----
    now,          \* Date.now(), in milliseconds
    store,        \* the files of the history directory: [ts, hash, content]
    readme,       \* the live README.md: [exists, content]
    last,         \* the last store operation and what it returned
    specials,     \* saves so far that did not save DefaultContent in a new millisecond
    \* ---- project analysis (analysis/languageDetector, projectTypeDetector) ----
    info,         \* the ProjectInfo under analysis
    detection,    \* the DetectionResult computed for it
    result,       \* the ProjectTypeResult computed for it
    badges,       \* the badge list generated for it
    \* ---- sidebar dialogs (handleSave, handleRollback) ----
    ui,           \* the handler last run and the modal dialog it is waiting in
    \* ---- saveVersion calls in flight, step by step ----
    saves,        \* per call: its position, timestamp, content and pending deletions
    \* ---- fetchWithRetry, and client calls that overlap ----
    retry,        \* the fetchWithRetry call: attempt, outcomes seen, waits, result
    overlap,      \* per overlapping client call: its position and its requests
    \* ---- the webview's generate handler ----
    posted        \* the run of handleGenerate: its stage and the messages it posted

genVars == <<groqKey, orKey, provider, cursor, pc, entry, client, log, reqs,
             received, resp, cursorAtEntry, projectName, hadCredential>>

histVars == <<now, store, readme, last, specials>>

clsVars == <<info, detection, result, badges>>

uiVars == <<ui>>

stepVars == <<saves>>

callVars == <<retry, overlap, posted>>

vars == <<genVars, histVars, clsVars, uiVars, stepVars, callVars>>

\* What the operations of one component leave alone
outsideGen == <<histVars, clsVars, uiVars, stepVars, callVars>>

outsideHist == <<genVars, clsVars, uiVars, stepVars, callVars>>

outsideCls == <<genVars, histVars, uiVars, stepVars, callVars>>

(***************************************************************************)
(* Texts                                                                   *)
(***************************************************************************)
EmptyText == <<>>

\* The parts String.prototype.trim removes entirely.
WhitespaceParts == {"", " ", "\n"}

\* text.trim().length === 0
IsBlank(text) == \A i \in 1..Len(text) : text[i] \in WhitespaceParts

(***************************************************************************)
(* Backend clients                                                         *)
(***************************************************************************)
Clients == {"groq", "openrouter"}

GroqModelCount == 4

OpenRouterModelCount == 8

\* HF_MODELS of the HuggingFace client, which no caller imports any more
HuggingFaceModelCount == 5

\* Every module with a currentModelIndex of its own
AllClients == Clients \cup {"huggingface"}

ModelCount(c) ==
    IF c = "groq" THEN GroqModelCount
    ELSE IF c = "huggingface" THEN HuggingFaceModelCount
    ELSE OpenRouterModelCount

\* Mutant of CanSwitch: the test is currentModelIndex < MODELS.length, one
\* step beyond the list.
CanSwitchBeyondList(c) == cursor[c] < ModelCount(c)

\* switchToNextModel() returns true
CanSwitch(c) == cursor[c] < ModelCount(c) - 1

switchToNextModel(c) == [cursor EXCEPT ![c] = cursor[c] + 1]

resetToFirstModel(c) == [cursor EXCEPT ![c] = 0]

\* The Groq client and the HuggingFace client read the same secret
HasKey(c) == IF c \in {"groq", "huggingface"} THEN groqKey ELSE orKey

Token == [cb |-> "onToken", arg |-> "token"]

OnError(reason) == [cb |-> "onError", arg |-> reason]

OnComplete(text) == [cb |-> "onComplete", arg |-> text]

\* callbacks.onToken(...): a run of consecutive tokens is kept as one entry
WithToken(l) == IF l # <<>> /\ l[Len(l)].cb = "onToken" THEN l ELSE Append(l, Token)

NoResp == [status |-> 0, busy |-> FALSE]

HttpErrors == {401, 404, 429, 500}

\* The offline template: "# <name>" followed by the fixed sections.
generateOfflineReadme(name) ==
    <<"# ", IF name = "" THEN "Project" ELSE name, "\n", "## About", "\n",
      "## Getting Started", "\n", "## License", "\n">>

ProjectNames == {"", "demo"}

(***************************************************************************)
(* Credential store operations (utils/secretStorage)                       *)
(***************************************************************************)
\* getApiProvider(): the stored provider, 'huggingface' when none is stored
getApiProvider == IF provider = "unset" THEN "huggingface" ELSE provider

setHuggingFaceApiKey ==
    /\ groqKey' = TRUE
    /\ UNCHANGED <<outsideGen, orKey, provider, cursor, pc, entry, client, log, reqs,
                   received, resp, cursorAtEntry, projectName, hadCredential>>

deleteHuggingFaceApiKey ==
    /\ groqKey
    /\ groqKey' = FALSE
    /\ UNCHANGED <<outsideGen, orKey, provider, cursor, pc, entry, client, log, reqs,
                   received, resp, cursorAtEntry, projectName, hadCredential>>

setApiKey ==
    /\ orKey' = TRUE
    /\ UNCHANGED <<outsideGen, groqKey, provider, cursor, pc, entry, client, log, reqs,
                   received, resp, cursorAtEntry, projectName, hadCredential>>

deleteApiKey ==
    /\ orKey
    /\ orKey' = FALSE
    /\ UNCHANGED <<outsideGen, groqKey, provider, cursor, pc, entry, client, log, reqs,
                   received, resp, cursorAtEntry, projectName, hadCredential>>

setApiProvider(p) ==
    /\ provider' = p
    /\ UNCHANGED <<outsideGen, groqKey, orKey, cursor, pc, entry, client, log, reqs,
                   received, resp, cursorAtEntry, projectName, hadCredential>>

(***************************************************************************)
(* generateReadme (generator/readmeGenerator)                              *)
(***************************************************************************)
\* const useGroq = hasGroqKey && (provider === 'huggingface' || !hasOrKey)
useGroq == groqKey /\ (getApiProvider = "huggingface" \/ ~orKey)

\* Mutant of generateReadme: the no-credential check is missing, so the
\* OpenRouter client is called even when nothing is stored.
generateReadmeWithoutOfflineCheck(name) ==
    /\ pc = "idle"
    /\ projectName' = name
    /\ entry' = "generateReadme"
    /\ log' = <<>>
    /\ pc' = "entered"
    /\ client' = IF useGroq THEN "groq" ELSE "openrouter"
    /\ reqs' = <<>>
    /\ received' = "none"
    /\ resp' = NoResp
    /\ hadCredential' = (groqKey \/ orKey)
    /\ cursorAtEntry' = IF client' \in Clients THEN cursor[client'] ELSE 0
    /\ UNCHANGED <<outsideGen, groqKey, orKey, provider, cursor>>

\* Entry of generateReadme up to the dispatch: without any credential the
\* offline document is delivered by onComplete and the call returns; otherwise
\* the selected backend client is called inside the try block.
generateReadmeEntry(name) ==
    /\ pc = "idle"
    /\ projectName' = name
    /\ entry' = "generateReadme"
    /\ IF ~groqKey /\ ~orKey
       THEN /\ log' = <<OnComplete(generateOfflineReadme(name))>>
            /\ pc' = "done"
            /\ client' = "none"
       ELSE /\ log' = <<>>
            /\ pc' = "entered"
            /\ client' = IF useGroq THEN "groq" ELSE "openrouter"
    /\ reqs' = <<>>
    /\ received' = "none"
    /\ resp' = NoResp
    /\ hadCredential' = (groqKey \/ orKey)
    /\ cursorAtEntry' = IF client' \in Clients THEN cursor[client'] ELSE 0
    /\ UNCHANGED <<groqKey, orKey, provider, cursor>>

\* generateReadme called on its own
generateReadme(name) ==
    /\ generateReadmeEntry(name)
    /\ UNCHANGED outsideGen

\* regenerateSection: refuses when hasApiKey() (the OpenRouter key) is false,
\* otherwise selects the backend as generateReadme does and awaits it outside
\* any try block.
regenerateSection ==
    /\ pc = "idle"
    /\ entry' = "regenerateSection"
    /\ IF ~orKey
       THEN /\ log' = <<OnError("no-key-for-section")>>
            /\ pc' = "done"
            /\ client' = "none"
       ELSE /\ log' = <<>>
            /\ pc' = "entered"
            /\ client' = IF useGroq THEN "groq" ELSE "openrouter"
    /\ reqs' = <<>>
    /\ received' = "none"
    /\ resp' = NoResp
    /\ hadCredential' = (groqKey \/ orKey)
    /\ cursorAtEntry' = IF client' \in Clients THEN cursor[client'] ELSE 0
    /\ UNCHANGED <<outsideGen, groqKey, orKey, provider, cursor, projectName>>

\* A direct call of generateWithGroq / generateWithStreaming (as the refine
\* and section handlers make).
CallClient(c) ==
    /\ pc = "idle"
    /\ entry' = "client"
    /\ client' = c
    /\ pc' = "entered"
    /\ log' = <<>>
    /\ reqs' = <<>>
    /\ received' = "none"
    /\ resp' = NoResp
    /\ hadCredential' = (groqKey \/ orKey)
    /\ cursorAtEntry' = cursor[c]
    /\ UNCHANGED <<outsideGen, groqKey, orKey, provider, cursor, projectName>>

\* The catch block of generateReadme: onError, then onComplete with the
\* offline document.
CatchFallback(l) ==
    l \o <<OnError("offline-fallback"), OnComplete(generateOfflineReadme(projectName))>>

\* The client's credential read (before its try block) rejects: the client's
\* promise rejects.  Under generateReadme the catch block runs; a direct
\* caller gets the rejection.
ClientKeyReadRejects ==
    /\ pc = "entered"
    /\ IF entry = "generateReadme"
       THEN /\ log' = CatchFallback(log)
            /\ pc' = "done"
       ELSE /\ log' = log
            /\ pc' = "rejected"
    /\ UNCHANGED <<outsideGen, groqKey, orKey, provider, cursor, entry, client, reqs,
                   received, resp, cursorAtEntry, projectName, hadCredential>>

\* if (!apiKey) { callbacks.onError(...); return; }
ClientKeyMissing ==
    /\ pc = "entered"
    /\ ~HasKey(client)
    /\ log' = Append(log, OnError("no-key"))
    /\ pc' = "done"
    /\ UNCHANGED <<outsideGen, groqKey, orKey, provider, cursor, entry, client, reqs,
                   received, resp, cursorAtEntry, projectName, hadCredential>>

\* Mutant of ClientBegin: the cursor is not reset at the start of the call.
ClientBeginWithoutReset ==
    /\ pc = "entered"
    /\ HasKey(client)
    /\ pc' = "attempt"
    /\ UNCHANGED <<outsideGen, groqKey, orKey, provider, cursor, entry, client, log, reqs,
                   received, resp, cursorAtEntry, projectName, hadCredential>>

\* The key is there: resetToFirstModel(), then the while loop starts.
ClientBegin ==
    /\ pc = "entered"
    /\ HasKey(client)
    /\ cursor' = resetToFirstModel(client)
    /\ pc' = "attempt"
    /\ UNCHANGED <<outsideGen, groqKey, orKey, provider, entry, client, log, reqs,
                   received, resp, cursorAtEntry, projectName, hadCredential>>

\* Top of the loop: the "Using model" token, then the request to the current
\* model.
Attempt ==
    /\ pc = "attempt"
    /\ log' = WithToken(log)
    /\ reqs' = Append(reqs, cursor[client])
    /\ resp' = NoResp
    /\ pc' = "awaiting"
    /\ UNCHANGED <<outsideGen, groqKey, orKey, provider, cursor, entry, client,
                   received, cursorAtEntry, projectName, hadCredential>>

\* The test that sends an error response down the "rate limit" branch.
RateLimited(c, status, busy) ==
    IF c = "groq" THEN status = 429 ELSE status = 429 \/ busy

\* if (switchToNextModel()) { onToken(...); await sleep(..); continue; }
Advance ==
    /\ cursor' = switchToNextModel(client)
    /\ log' = WithToken(log)
    /\ pc' = "attempt"

\* Mutant of Fail: the return after callbacks.onError is missing, so the loop
\* goes round again.
FailWithoutReturn(reason) ==
    /\ log' = Append(log, OnError(reason))
    /\ pc' = "attempt"

\* callbacks.onError(...); return;
Fail(reason) ==
    /\ log' = Append(log, OnError(reason))
    /\ pc' = "done"

\* if (!response.ok) { ... }: status is the HTTP status, busy says whether the
\* body text contains 'busy' or 'overloaded'.
ErrorResponse(status, busy) ==
    /\ pc = "awaiting"
    /\ resp' = [status |-> status, busy |-> busy]
    /\ IF RateLimited(client, status, busy)
       THEN IF CanSwitch(client)
            THEN Advance
            ELSE /\ cursor' = resetToFirstModel(client)
                 /\ Fail("rate-limit")
       ELSE IF status = 404 /\ CanSwitch(client)
            THEN Advance
            ELSE /\ UNCHANGED cursor
                 /\ Fail(IF status = 401 THEN "auth" ELSE "api-error")
    /\ UNCHANGED <<outsideGen, groqKey, orKey, provider, entry, client, reqs, received,
                   cursorAtEntry, projectName, hadCredential>>

\* fetch rejects, the body cannot be parsed, or the stream read rejects: the
\* catch block of the loop.
Thrown ==
    /\ pc \in {"awaiting", "streaming"}
    /\ pc = "streaming" => client = "openrouter"
    /\ resp' = IF pc = "awaiting" THEN [status |-> -1, busy |-> FALSE] ELSE resp
    /\ IF CanSwitch(client)
       THEN Advance
       ELSE /\ UNCHANGED cursor
            /\ Fail("network")
    /\ UNCHANGED <<outsideGen, groqKey, orKey, provider, entry, client, reqs, received,
                   cursorAtEntry, projectName, hadCredential>>

\* Groq: a 200 response with its generated text.  A blank text moves to the
\* next model when there is one; otherwise the text is chunked into tokens and
\* handed to onComplete.
GroqOk(text) ==
    /\ pc = "awaiting"
    /\ client = "groq"
    /\ resp' = [status |-> 200, busy |-> FALSE]
    /\ IF IsBlank(text) /\ CanSwitch(client)
       THEN Advance
       ELSE /\ UNCHANGED cursor
            /\ log' = Append(WithToken(log), OnComplete(text))
            /\ pc' = "done"
    /\ UNCHANGED <<outsideGen, groqKey, orKey, provider, entry, client, reqs, received,
                   cursorAtEntry, projectName, hadCredential>>

\* OpenRouter: a 200 response without a body.
NoBody ==
    /\ pc = "awaiting"
    /\ client = "openrouter"
    /\ resp' = [status |-> 200, busy |-> FALSE]
    /\ UNCHANGED cursor
    /\ Fail("no-body")
    /\ UNCHANGED <<outsideGen, groqKey, orKey, provider, entry, client, reqs, received,
                   cursorAtEntry, projectName, hadCredential>>

\* OpenRouter: a 200 response with a body; the stream is read.
StreamOpen ==
    /\ pc = "awaiting"
    /\ client = "openrouter"
    /\ resp' = [status |-> 200, busy |-> FALSE]
    /\ received' = "none"
    /\ pc' = "streaming"
    /\ UNCHANGED <<outsideGen, groqKey, orKey, provider, cursor, entry, client, log, reqs,
                   cursorAtEntry, projectName, hadCredential>>

\* fullContent after appending a token of the given kind
Accumulate(sofar, kind) == IF sofar = "text" \/ kind = "text" THEN "text" ELSE "blank"

\* A data line with delta content: fullContent += token; callbacks.onToken(token)
StreamToken(kind) ==
    /\ pc = "streaming"
    /\ received' = Accumulate(received, kind)
    /\ log' = WithToken(log)
    /\ UNCHANGED <<outsideGen, groqKey, orKey, provider, cursor, pc, entry, client, reqs,
                   resp, cursorAtEntry, projectName, hadCredential>>

\* The text handed to onComplete for what the stream accumulated
StreamText(sofar) ==
    IF sofar = "none" THEN EmptyText
    ELSE IF sofar = "blank" THEN <<" ">> ELSE <<"readme">>

\* reader.read() reports done: blank content moves to the next model when
\* there is one; otherwise onComplete(fullContent).
StreamDone ==
    /\ pc = "streaming"
    /\ IF IsBlank(StreamText(received)) /\ CanSwitch(client)
       THEN Advance
       ELSE /\ UNCHANGED cursor
            /\ log' = Append(log, OnComplete(StreamText(received)))
            /\ pc' = "done"
    /\ UNCHANGED <<outsideGen, groqKey, orKey, provider, entry, client, reqs, received,
                   resp, cursorAtEntry, projectName, hadCredential>>

\* The caller takes the result; the next call can start.
Return ==
    /\ pc \in {"done", "rejected"}
    /\ pc' = "idle"
    /\ cursorAtEntry' = 0
    /\ entry' = "none"
    /\ client' = "none"
    /\ log' = <<>>
    /\ reqs' = <<>>
    /\ received' = "none"
    /\ resp' = NoResp
    /\ hadCredential' = FALSE
    /\ UNCHANGED <<outsideGen, groqKey, orKey, provider, cursor, projectName>>

GroqTexts == {EmptyText, <<" ">>, <<"readme">>}

(***************************************************************************)
(* The HuggingFace client (api/huggingFaceClient), the predecessor of the  *)
(* Groq client: exported, with the same loop over its own model list.      *)
(***************************************************************************)
HuggingFaceHttpErrors == HttpErrors \cup {503}

\* A call of generateWithHuggingFace(messages, callbacks)
generateWithHuggingFace ==
    /\ pc = "idle"
    /\ entry' = "client"
    /\ client' = "huggingface"
    /\ pc' = "entered"
    /\ log' = <<>>
    /\ reqs' = <<>>
    /\ received' = "none"
    /\ resp' = NoResp
    /\ hadCredential' = (groqKey \/ orKey)
    /\ cursorAtEntry' = cursor["huggingface"]
    /\ UNCHANGED <<outsideGen, groqKey, orKey, provider, cursor, projectName>>

\* if (!response.ok) { ... } of the HuggingFace client: loading says whether
\* the error message contains 'loading' or 'busy'.
HuggingFaceErrorResponse(status, loading) ==
    /\ pc = "awaiting"
    /\ client = "huggingface"
    /\ resp' = [status |-> status, busy |-> loading]
    /\ IF status = 503 \/ loading
       THEN IF CanSwitch(client)
            THEN Advance
            ELSE /\ cursor' = resetToFirstModel(client)
                 /\ Fail("loading")
       ELSE IF status = 429 /\ CanSwitch(client)
            THEN Advance
            ELSE /\ UNCHANGED cursor
                 /\ Fail(IF status = 401 THEN "auth" ELSE "api-error")
    /\ UNCHANGED <<outsideGen, groqKey, orKey, provider, entry, client, reqs, received,
                   cursorAtEntry, projectName, hadCredential>>

\* A 200 response of the HuggingFace client with its generated text
HuggingFaceOk(text) ==
    /\ pc = "awaiting"
    /\ client = "huggingface"
    /\ resp' = [status |-> 200, busy |-> FALSE]
    /\ IF IsBlank(text) /\ CanSwitch(client)
       THEN Advance
       ELSE /\ UNCHANGED cursor
            /\ log' = Append(WithToken(log), OnComplete(text))
            /\ pc' = "done"
    /\ UNCHANGED <<outsideGen, groqKey, orKey, provider, entry, client, reqs, received,
                   cursorAtEntry, projectName, hadCredential>>

InitGen ==
    /\ groqKey = FALSE
    /\ orKey = FALSE
    /\ provider = "unset"
    /\ cursor = [c \in AllClients |-> 0]
    /\ pc = "idle"
    /\ entry = "none"
    /\ client = "none"
    /\ log = <<>>
    /\ reqs = <<>>
    /\ received = "none"
    /\ resp = NoResp
    /\ cursorAtEntry = 0
    /\ projectName = ""
    /\ hadCredential = FALSE

NextGen ==
    \/ setHuggingFaceApiKey
    \/ deleteHuggingFaceApiKey
    \/ setApiKey
    \/ deleteApiKey
    \/ \E p \in {"huggingface", "openrouter"} : setApiProvider(p)
    \/ \E name \in ProjectNames : generateReadme(name)
    \/ regenerateSection
    \/ \E c \in Clients : CallClient(c)
    \/ ClientKeyReadRejects
    \/ ClientKeyMissing
    \/ ClientBegin
    \/ Attempt
    \/ \E status \in HttpErrors, busy \in BOOLEAN : ErrorResponse(status, busy)
    \/ Thrown
    \/ \E text \in GroqTexts : GroqOk(text)
    \/ NoBody
    \/ StreamOpen
    \/ \E kind \in {"blank", "text"} : StreamToken(kind)
    \/ StreamDone
    \/ Return

NextHuggingFace ==
    \/ setHuggingFaceApiKey
    \/ deleteHuggingFaceApiKey
    \/ generateWithHuggingFace
    \/ ClientKeyReadRejects
    \/ ClientKeyMissing
    \/ ClientBegin
    \/ Attempt
    \/ \E status \in HuggingFaceHttpErrors, loading \in BOOLEAN :
          HuggingFaceErrorResponse(status, loading)
    \/ Thrown
    \/ \E text \in GroqTexts : HuggingFaceOk(text)
    \/ Return

(***************************************************************************)
(* Version store (history/historyManager)                                  *)
(***************************************************************************)
MAX_VERSIONS == 20

\* Last millisecond in which a save is explored
MaxTime == 21

\* Saves that differ from "DefaultContent in a new millisecond"
MaxSpecial == 1

DefaultContent == <<"a">>

Contents == {EmptyText, <<"a">>, <<"b">>}

\* crypto.createHash('md5').update(content).digest('hex').substring(0, 8)
generateHash(content) ==
    IF content = EmptyText THEN "d41d8cd9"
    ELSE IF content = <<"a">> THEN "0cc175b9" ELSE "92eb5ffe"

\* `${timestamp}-${hash}`
VersionId(ts, hash) == <<ts, hash>>

IdOf(file) == VersionId(file.ts, file.hash)

NoId == VersionId(0, "")

NoReadme == [exists |-> FALSE, content |-> EmptyText]

NoOp == [op |-> "none", id |-> NoId, content |-> EmptyText, ok |-> TRUE,
         before |-> 0, fresh |-> FALSE, evicted |-> {},
                    listed |-> <<>>]

\* fs.promises.writeFile(filePath, content): a file of that name is replaced
WriteVersion(files, ts, content) ==
    {f \in files : IdOf(f) # VersionId(ts, generateHash(content))}
        \cup {[ts |-> ts, hash |-> generateHash(content), content |-> content]}

\* Mutant of cleanupOldVersions: the versions are sorted oldest-first, so the
\* newest ones beyond the cap are deleted.
cleanupSortedAscending(files) ==
    IF Cardinality(files) <= MAX_VERSIONS THEN {files}
    ELSE LET older(v) == {w \in files : w.ts < v.ts}
             olderOrSame(v) == {w \in files : w.ts <= v.ts}
             sure == {v \in files : Cardinality(olderOrSame(v)) <= MAX_VERSIONS}
             gone == {v \in files : Cardinality(older(v)) >= MAX_VERSIONS}
             tie  == files \ (sure \cup gone)
         IN  {sure \cup K : K \in {T \in SUBSET tie :
                                      Cardinality(sure \cup T) = MAX_VERSIONS}}

\* cleanupOldVersions: getVersions sorts newest-first (a stable sort over the
\* directory listing, whose order is not specified), everything from position
\* MAX_VERSIONS on is unlinked.  The result is the set of the directory
\* contents that can be left: versions that are certainly among the first
\* MAX_VERSIONS stay, those certainly beyond go, and of the versions whose
\* equal timestamps straddle the cut, any selection of the right size stays.
cleanupOldVersions(files) ==
    IF Cardinality(files) <= MAX_VERSIONS THEN {files}
    ELSE LET newer(v) == {w \in files : w.ts > v.ts}
             newerOrSame(v) == {w \in files : w.ts >= v.ts}
             sure == {v \in files : Cardinality(newerOrSame(v)) <= MAX_VERSIONS}
             gone == {v \in files : Cardinality(newer(v)) >= MAX_VERSIONS}
             tie  == files \ (sure \cup gone)
         IN  {sure \cup K : K \in {T \in SUBSET tie :
                                      Cardinality(sure \cup T) = MAX_VERSIONS}}

\* saveVersion(root, content); advance says whether the clock has moved on to
\* the next millisecond when the call returns.
saveVersion(content, advance) ==
    /\ now <= MaxTime
    /\ LET special == content # DefaultContent \/ ~advance
           written == WriteVersion(store, now, content)
       IN  /\ special => specials < MaxSpecial
           /\ specials' = IF special THEN specials + 1 ELSE specials
           /\ \E kept \in cleanupOldVersions(written) :
                 /\ store' = kept
                 /\ last' = [op |-> "save",
                             id |-> VersionId(now, generateHash(content)),
                             content |-> content,
                             ok |-> TRUE,
                             before |-> Cardinality(store),
                             fresh |-> Cardinality(written) > Cardinality(store),
                             evicted |-> written \ kept,
                             listed |-> <<>>]
    /\ now' = IF advance THEN now + 1 ELSE now
    /\ UNCHANGED <<outsideHist, readme>>

\* The entry getVersions builds from one file name
ReadmeVersion(file) ==
    [id |-> IdOf(file), timestamp |-> file.ts, hash |-> file.hash]

\* The orders in which readdir may list files of one millisecond: the order
\* of a directory listing is not specified.
DirectoryOrders ==
    {o \in [1..Cardinality(Contents) -> Contents] :
        \A i, j \in DOMAIN o : o[i] = o[j] => i = j}

ListedBefore(order, f, g) ==
    (CHOOSE k \in DOMAIN order : order[k] = f.content)
        < (CHOOSE k \in DOMAIN order : order[k] = g.content)

\* Mutant of ListVersions: the comparator is a.timestamp - b.timestamp, so
\* the list is oldest-first.
ListVersionsOldestFirst(files, order) ==
    LET rank(f) == 1 + Cardinality({g \in files : g.ts < f.ts})
                     + Cardinality({g \in files : g.ts = f.ts /\ ListedBefore(order, g, f)})
    IN  [k \in 1..Cardinality(files) |->
            ReadmeVersion(CHOOSE f \in files : rank(f) = k)]

\* What getVersions returns for the files of the history directory: one
\* entry per file, sorted by b.timestamp - a.timestamp; the sort is stable,
\* so files of one millisecond stay in the order readdir listed them.
ListVersions(files, order) ==
    LET rank(f) == 1 + Cardinality({g \in files : g.ts > f.ts})
                     + Cardinality({g \in files : g.ts = f.ts /\ ListedBefore(order, g, f)})
    IN  [k \in 1..Cardinality(files) |->
            ReadmeVersion(CHOOSE f \in files : rank(f) = k)]

\* getVersions(root): a missing history directory and an empty one both
\* give the empty list.
getVersions(order) ==
    /\ last' = [op |-> "list", id |-> NoId, content |-> EmptyText, ok |-> TRUE,
                before |-> Cardinality(store), fresh |-> FALSE, evicted |-> {},
                listed |-> ListVersions(store, order)]
    /\ UNCHANGED <<outsideHist, now, store, readme, specials>>

\* getVersionContent(root, versionId): the content of the version, or null
getVersionContent(files, id) ==
    IF \E f \in files : IdOf(f) = id
    THEN [found |-> TRUE, content |-> (CHOOSE f \in files : IdOf(f) = id).content]
    ELSE [found |-> FALSE, content |-> EmptyText]

\* if (!content) return false;  null and '' are both falsy
Falsy(read) == ~read.found \/ read.content = EmptyText

\* An id no stored version has
MissingId == VersionId(0, "00000000")

\* Mutant of RollbackWrite: the `if (!content) return false` test is
\* missing, so a version that is not found is written as an empty README.md.
RollbackWriteUnchecked(id) ==
    LET read == getVersionContent(store, id)
        afterSave == last.op = "save" /\ last.id = id
    IN  /\ readme' = [exists |-> TRUE, content |-> read.content]
        /\ last' = [op |-> IF afterSave THEN "rollback" ELSE "rollback-other",
                    id |-> IF afterSave THEN id ELSE NoId,
                    content |-> IF afterSave THEN last.content ELSE EmptyText,
                    ok |-> ~Falsy(read),
                    before |-> 0, fresh |-> FALSE, evicted |-> {},
                    listed |-> <<>>]

\* The body of rollbackToVersion: what it reads, writes and returns
RollbackWrite(id) ==
    LET read == getVersionContent(store, id)
        afterSave == last.op = "save" /\ last.id = id
    IN  /\ readme' = IF Falsy(read) THEN readme
                     ELSE [exists |-> TRUE, content |-> read.content]
        /\ last' = [op |-> IF afterSave THEN "rollback" ELSE "rollback-other",
                    id |-> IF afterSave THEN id ELSE NoId,
                    content |-> IF afterSave THEN last.content ELSE EmptyText,
                    ok |-> ~Falsy(read),
                    before |-> 0, fresh |-> FALSE, evicted |-> {},
                    listed |-> <<>>]

\* rollbackToVersion(root, versionId)
rollbackToVersion(id) ==
    /\ RollbackWrite(id)
    /\ UNCHANGED <<outsideHist, now, store, specials>>

\* The version ids tried: the one just saved, one stored version of each
\* content, and an id that no version has.
RollbackTargets ==
    {IdOf(CHOOSE f \in store : f.content = c) :
        c \in {d \in Contents : \E f \in store : f.content = d}}
    \cup (IF last.op = "save" THEN {last.id} ELSE {})
    \cup {MissingId}

\* const MAX_RETRIES = 3
MAX_RETRIES == 3

\* const INITIAL_DELAY_MS = 2000
INITIAL_DELAY_MS == 2000

\* const MAX_DELAY_MS = 30000
MAX_DELAY_MS == 30000

\* The largest maxRetries argument explored
MaxRetriesArg == 5

\* The maxRetries arguments: none, the default, one that reaches the delay
\* cap, and a negative one
RetryArgs == {-1, 0, MAX_RETRIES, MaxRetriesArg}

NoRetry == [pc |-> "idle", maxRetries |-> 0, attempt |-> 0, seen |-> <<>>,
            waits |-> <<>>, lastError |-> 0, response |-> 0, thrown |-> 0]

\* handleGenerate has not run
NoPosted == [stage |-> "none", ready |-> FALSE, messages |-> <<>>, saved |-> FALSE]

\* The client calls that can overlap
OverlapCalls == {1, 2}

NoOverlap == [p \in OverlapCalls |-> [pc |-> "idle", reqs |-> <<>>]]

\* The saveVersion calls that can be in flight together (two generations,
\* or a generation and a refinement, completing close to each other)
SaveCalls == {1, 2}

\* The number of saveVersion calls explored in one run
MaxStarted == 2

NoCall == [pc |-> "idle", ts |-> 0, content |-> EmptyText, toDelete |-> <<>>,
           failed |-> {}, result |-> NoId]

NoSaves == [call |-> [p \in SaveCalls |-> NoCall], started |-> 0]

InitHist ==
    /\ now = 1
    /\ store = {}
    /\ readme = NoReadme
    /\ last = NoOp
    /\ specials = 0
    /\ saves = NoSaves
    /\ retry = NoRetry
    /\ overlap = NoOverlap
    /\ posted = NoPosted

NextHist ==
    \/ \E content \in Contents, advance \in BOOLEAN : saveVersion(content, advance)
    \/ \E id \in RollbackTargets : rollbackToVersion(id)

(***************************************************************************)
(* saveVersion step by step: every await of saveVersion and of             *)
(* cleanupOldVersions is a point where another call can run.               *)
(***************************************************************************)
\* versions.slice(MAX_VERSIONS), as ids; getVersions gave the list
ToDelete(list) ==
    IF Len(list) <= MAX_VERSIONS THEN <<>>
    ELSE [k \in 1..(Len(list) - MAX_VERSIONS) |-> list[MAX_VERSIONS + k].id]

\* const timestamp = Date.now(); ...; writeFile is issued.  advance says
\* whether the clock moves on before the next call reads it.
StartSave(p, content, advance) ==
    /\ saves.call[p].pc \in {"idle", "returned"}
    /\ saves.started < MaxStarted
    /\ saves' = [call |-> [saves.call EXCEPT ![p] =
                              [NoCall EXCEPT !.pc = "writing", !.ts = now,
                                             !.content = content]],
                 started |-> saves.started + 1]
    /\ now' = IF advance THEN now + 1 ELSE now
    /\ UNCHANGED <<genVars, clsVars, uiVars, callVars, store, readme, last, specials>>

\* await fs.promises.writeFile(filePath, content) has completed
WriteDone(p) ==
    /\ saves.call[p].pc = "writing"
    /\ store' = WriteVersion(store, saves.call[p].ts, saves.call[p].content)
    /\ saves' = [saves EXCEPT !.call[p].pc = "written"]
    /\ UNCHANGED <<genVars, clsVars, uiVars, callVars, now, readme, last, specials>>

\* cleanupOldVersions: await getVersions(...) has completed and toDelete is
\* computed from that listing.
ListDone(p, order) ==
    /\ saves.call[p].pc = "written"
    /\ saves' = [saves EXCEPT !.call[p].pc = "cleaning",
                              !.call[p].toDelete = ToDelete(ListVersions(store, order))]
    /\ UNCHANGED <<genVars, clsVars, uiVars, callVars, now, store, readme, last, specials>>

\* Mutant of UnlinkFails: the catch block rethrows, so saveVersion rejects.
UnlinkFailsRethrown(p) ==
    /\ saves.call[p].pc = "cleaning"
    /\ saves.call[p].toDelete # <<>>
    /\ \E f \in store : IdOf(f) = Head(saves.call[p].toDelete)
    /\ saves' = [saves EXCEPT !.call[p].pc = "threw",
                              !.call[p].failed = @ \cup {Head(saves.call[p].toDelete)}]
    /\ UNCHANGED <<genVars, clsVars, uiVars, callVars, now, store, readme, last, specials>>

\* Mutant of Unlink: the catch block is missing, so unlinking a file that
\* another call has already removed rejects the save.
UnlinkThrowsWhenGone(p) ==
    /\ saves.call[p].pc = "cleaning"
    /\ saves.call[p].toDelete # <<>>
    /\ LET id == Head(saves.call[p].toDelete)
           there == \E f \in store : IdOf(f) = id
       IN  /\ store' = {f \in store : IdOf(f) # id}
           /\ saves' = IF there THEN [saves EXCEPT !.call[p].toDelete = Tail(@)]
                        ELSE [saves EXCEPT !.call[p].pc = "threw",
                                           !.call[p].failed = @ \cup {id}]
    /\ UNCHANGED <<genVars, clsVars, uiVars, callVars, now, readme, last, specials>>

\* await fs.promises.unlink(version.filePath) of the next version to delete:
\* the file is removed; when it is no longer there (another call removed
\* it) unlink throws and the catch block ignores it.
Unlink(p) ==
    /\ saves.call[p].pc = "cleaning"
    /\ saves.call[p].toDelete # <<>>
    /\ LET id == Head(saves.call[p].toDelete)
           there == \E f \in store : IdOf(f) = id
       IN  /\ store' = {f \in store : IdOf(f) # id}
           /\ saves' = [saves EXCEPT !.call[p].toDelete = Tail(@),
                                     !.call[p].failed = IF there THEN @ ELSE @ \cup {id}]
    /\ UNCHANGED <<genVars, clsVars, uiVars, callVars, now, readme, last, specials>>

\* unlink of a file that is there throws (it is locked or protected); the
\* catch block ignores it and the loop goes on.
UnlinkFails(p) ==
    /\ saves.call[p].pc = "cleaning"
    /\ saves.call[p].toDelete # <<>>
    /\ \E f \in store : IdOf(f) = Head(saves.call[p].toDelete)
    /\ saves' = [saves EXCEPT !.call[p].toDelete = Tail(@),
                              !.call[p].failed = @ \cup {Head(saves.call[p].toDelete)}]
    /\ UNCHANGED <<genVars, clsVars, uiVars, callVars, now, store, readme, last, specials>>

\* The loop is over: saveVersion returns the ReadmeVersion of its file.
ReturnSave(p) ==
    /\ saves.call[p].pc = "cleaning"
    /\ saves.call[p].toDelete = <<>>
    /\ saves' = [saves EXCEPT !.call[p].pc = "returned",
                              !.call[p].result = VersionId(saves.call[p].ts,
                                                           generateHash(saves.call[p].content))]
    /\ UNCHANGED <<genVars, clsVars, uiVars, callVars, now, store, readme, last, specials>>

\* The history that earlier saves left: one version per millisecond
FullHistory(n) ==
    {[ts |-> t, hash |-> generateHash(DefaultContent), content |-> DefaultContent] :
        t \in 1..n}

\* One call at a time, whose deletions may fail
NextCleanup ==
    \/ \E content \in Contents, advance \in BOOLEAN : StartSave(1, content, advance)
    \/ WriteDone(1)
    \/ \E order \in DirectoryOrders : ListDone(1, order)
    \/ Unlink(1)
    \/ UnlinkFails(1)
    \/ ReturnSave(1)

\* Two calls, interleaved at every await
NextConcurrentSave ==
    \/ \E p \in SaveCalls, content \in Contents, advance \in BOOLEAN :
          StartSave(p, content, advance)
    \/ \E p \in SaveCalls : WriteDone(p)
    \/ \E p \in SaveCalls, order \in DirectoryOrders : ListDone(p, order)
    \/ \E p \in SaveCalls : Unlink(p)
    \/ \E p \in SaveCalls : ReturnSave(p)

(***************************************************************************)
(* fetchWithRetry                                                          *)
(***************************************************************************)
Least(a, b) == IF a <= b THEN a ELSE b

\* Mutant of getRetryDelay: the delay is not capped.
getRetryDelayUncapped(attempt) == INITIAL_DELAY_MS * 2^attempt

\* Math.min(INITIAL_DELAY_MS * Math.pow(2, attempt), MAX_DELAY_MS)
getRetryDelay(attempt) == Least(INITIAL_DELAY_MS * 2^attempt, MAX_DELAY_MS)

\* The statuses a response can carry
FetchStatuses == {200, 429, 500}

\* A request that fails at the network level has no status: fetch rejects
NetworkError == 0

\* `let lastError = null; for (let attempt = 0; attempt <= maxRetries; ...)`:
\* with a negative maxRetries the loop body never runs and the generic error
\* (numbered 0 here) is thrown.
fetchWithRetry(maxRetries) ==
    /\ retry.pc = "idle"
    /\ retry' = [NoRetry EXCEPT !.maxRetries = maxRetries,
                                !.pc = IF 0 <= maxRetries THEN "fetching" ELSE "threw"]
    /\ UNCHANGED <<genVars, histVars, clsVars, uiVars, stepVars, overlap, posted>>

\* await fetch(url, options) resolves with a response
FetchResponds(status) ==
    /\ retry.pc = "fetching"
    /\ IF status = 429 /\ retry.attempt < retry.maxRetries
       THEN retry' = [retry EXCEPT !.seen = Append(@, status),
                                   !.waits = Append(@, getRetryDelay(retry.attempt)),
                                   !.pc = "sleeping"]
       ELSE retry' = [retry EXCEPT !.seen = Append(@, status),
                                   !.response = status,
                                   !.pc = "returned"]
    /\ UNCHANGED <<genVars, histVars, clsVars, uiVars, stepVars, overlap, posted>>

\* await fetch(url, options) rejects: lastError is that error (numbered by
\* the request it came from); on the final attempt the loop ends and
\* lastError is thrown.
FetchThrows ==
    /\ retry.pc = "fetching"
    /\ LET n == Len(retry.seen) + 1
       IN  IF retry.attempt < retry.maxRetries
           THEN retry' = [retry EXCEPT !.seen = Append(@, NetworkError),
                                       !.lastError = n,
                                       !.waits = Append(@, getRetryDelay(retry.attempt)),
                                       !.pc = "sleeping"]
           ELSE retry' = [retry EXCEPT !.seen = Append(@, NetworkError),
                                       !.lastError = n,
                                       !.thrown = n,
                                       !.pc = "threw"]
    /\ UNCHANGED <<genVars, histVars, clsVars, uiVars, stepVars, overlap, posted>>

\* await sleep(delayMs) is over; attempt++
SleepDone ==
    /\ retry.pc = "sleeping"
    /\ retry' = [retry EXCEPT !.attempt = @ + 1, !.pc = "fetching"]
    /\ UNCHANGED <<genVars, histVars, clsVars, uiVars, stepVars, overlap, posted>>

NextRetry ==
    \/ \E maxRetries \in RetryArgs : fetchWithRetry(maxRetries)
    \/ \E status \in FetchStatuses : FetchResponds(status)
    \/ FetchThrows
    \/ SleepDone

(***************************************************************************)
(* Two generateWithGroq calls in flight at once.  handleMessage is async    *)
(* and is not serialized, so a second 'generate' or 'refine' message        *)
(* starts a second call while the first one waits in fetch or in sleep;     *)
(* both calls work on the module's one currentModelIndex.                   *)
(***************************************************************************)
\* What a step of an overlapping call leaves alone
besideOverlap == <<histVars, clsVars, uiVars, stepVars, retry, posted, groqKey, orKey,
                   provider, pc, entry, client, log, reqs, received, resp,
                   cursorAtEntry, projectName, hadCredential>>

\* The key is read, resetToFirstModel() runs and the first pass of the loop
\* sends its request for getCurrentModel().
OverlapBegin(p) ==
    /\ overlap[p].pc = "idle"
    /\ HasKey("groq")
    /\ cursor' = resetToFirstModel("groq")
    /\ overlap' = [overlap EXCEPT ![p] = [pc |-> "awaiting", reqs |-> <<0>>]]
    /\ UNCHANGED besideOverlap

\* The request is answered 429 or 404: switchToNextModel(), then
\* `await sleep(...); continue`; when there is no next model the call ends
\* with onError (after resetToFirstModel() in the 429 branch).
OverlapFailsOver(p, status) ==
    /\ overlap[p].pc = "awaiting"
    /\ IF CanSwitch("groq")
       THEN /\ cursor' = switchToNextModel("groq")
            /\ overlap' = [overlap EXCEPT ![p].pc = "sleeping"]
       ELSE /\ cursor' = IF status = 429 THEN resetToFirstModel("groq") ELSE cursor
            /\ overlap' = [overlap EXCEPT ![p].pc = "done"]
    /\ UNCHANGED besideOverlap

\* The sleep is over: the next pass reads getCurrentModel() and sends its
\* request.
OverlapResume(p) ==
    /\ overlap[p].pc = "sleeping"
    /\ overlap' = [overlap EXCEPT ![p].pc = "awaiting",
                                  ![p].reqs = Append(@, cursor["groq"])]
    /\ UNCHANGED <<cursor, besideOverlap>>

\* The request is answered with a text: onComplete, return.
OverlapOk(p) ==
    /\ overlap[p].pc = "awaiting"
    /\ overlap' = [overlap EXCEPT ![p].pc = "done"]
    /\ UNCHANGED <<cursor, besideOverlap>>

NextOverlap ==
    \/ setHuggingFaceApiKey
    \/ \E p \in OverlapCalls : OverlapBegin(p)
    \/ \E p \in OverlapCalls, status \in {429, 404} : OverlapFailsOver(p, status)
    \/ \E p \in OverlapCalls : OverlapResume(p)
    \/ \E p \in OverlapCalls : OverlapOk(p)

(***************************************************************************)
(* The commands and messages that write the secret storage                 *)
(***************************************************************************)
\* What a key command leaves alone
besideKeys == <<outsideGen, cursor, pc, entry, client, log, reqs, received, resp,
                cursorAtEntry, projectName, hadCredential>>

\* ai-readme.setApiKey: the input box returns a validated key, or undefined
\* when it is dismissed; `if (key) await setApiKey(key.trim())`.  Also run
\* by the 'setApiKey' webview message and by the welcome message.
setApiKeyCmd(entered) ==
    /\ orKey' = (entered \/ orKey)
    /\ UNCHANGED <<besideKeys, groqKey, provider>>

\* Mutant of setHuggingFaceApiKeyCmd: the provider stored with the key is
\* 'openrouter'.
setHuggingFaceApiKeyCmdOpenRouter(entered) ==
    /\ groqKey' = (entered \/ groqKey)
    /\ provider' = IF entered THEN "openrouter" ELSE provider
    /\ UNCHANGED <<besideKeys, orKey>>

\* ai-readme.setHuggingFaceApiKey: `if (key) { await
\* setHuggingFaceApiKey(key.trim()); await setApiProvider('huggingface') }`
setHuggingFaceApiKeyCmd(entered) ==
    /\ groqKey' = (entered \/ groqKey)
    /\ provider' = IF entered THEN "huggingface" ELSE provider
    /\ UNCHANGED <<besideKeys, orKey>>

\* The 'saveApiKey' webview message: setHuggingFaceApiKey(message.data.apiKey)
\* with whatever string the message carries; hasHuggingFaceApiKey() is false
\* for the empty string.
handleSaveApiKey(empty) ==
    /\ groqKey' = ~empty
    /\ UNCHANGED <<besideKeys, orKey, provider>>

(***************************************************************************)
(* The webview's generate handler                                          *)
(***************************************************************************)
\* The versions the generate handler saves in one run of the model
MaxGenerated == 2

ApiKeyRequired == "error: API Key Required"

\* What the generate handler leaves alone
besideGenerate == <<clsVars, uiVars, stepVars, retry, overlap>>

\* Mutant of handleGenerate: the key check is missing.
handleGenerateUnchecked(ready, name) ==
    /\ pc = "idle"
    /\ posted.stage # "generating"
    /\ Cardinality(store) < MaxGenerated
    /\ IF ~ready
       THEN /\ posted' = [NoPosted EXCEPT !.stage = "returned"]
            /\ UNCHANGED genVars
       ELSE /\ posted' = [NoPosted EXCEPT !.stage = "generating", !.ready = TRUE,
                                          !.messages = <<"generating">>]
            /\ generateReadmeEntry(name)
    /\ UNCHANGED <<besideGenerate, histVars>>

\* handleGenerate up to the awaited generateReadme: it returns at once when
\* there is no panel or no scanned project (ready is false); without a Groq
\* key it posts the 'API Key Required' error and returns; otherwise it posts
\* 'generating' and calls generateReadme.
handleGenerate(ready, name) ==
    /\ pc = "idle"
    /\ posted.stage # "generating"
    /\ Cardinality(store) < MaxGenerated
    /\ IF ~ready
       THEN /\ posted' = [NoPosted EXCEPT !.stage = "returned"]
            /\ UNCHANGED genVars
       ELSE IF ~groqKey
       THEN /\ posted' = [NoPosted EXCEPT !.stage = "returned", !.ready = TRUE,
                                          !.messages = <<ApiKeyRequired>>]
            /\ UNCHANGED genVars
       ELSE /\ posted' = [NoPosted EXCEPT !.stage = "generating", !.ready = TRUE,
                                          !.messages = <<"generating">>]
            /\ generateReadmeEntry(name)
    /\ UNCHANGED <<besideGenerate, histVars>>

\* The message each callback of the handler posts
PostedFor(l) ==
    [i \in 1..Len(l) |-> IF l[i].cb = "onToken" THEN "token"
                         ELSE IF l[i].cb = "onError" THEN "error" ELSE "generated"]

\* The callbacks handed to generateReadme: onToken posts 'token', onComplete
\* posts 'generated' and saves the content as a version, onError posts
\* 'error'; the awaited call has returned.
handleGenerateCallbacks ==
    /\ posted.stage = "generating"
    /\ pc = "done"
    /\ LET completions == {i \in 1..Len(log) : log[i].cb = "onComplete"}
       IN  /\ posted' = [posted EXCEPT !.stage = "returned",
                                       !.messages = @ \o PostedFor(log),
                                       !.saved = (completions # {})]
           /\ IF completions = {}
              THEN UNCHANGED <<store, now>>
              ELSE /\ \E i \in completions :
                        store' \in cleanupOldVersions(WriteVersion(store, now, log[i].arg))
                   /\ now' = now + 1
    /\ pc' = "idle"
    /\ cursorAtEntry' = 0
    /\ entry' = "none"
    /\ client' = "none"
    /\ log' = <<>>
    /\ reqs' = <<>>
    /\ received' = "none"
    /\ resp' = NoResp
    /\ hadCredential' = FALSE
    /\ UNCHANGED <<besideGenerate, groqKey, orKey, provider, cursor, projectName,
                   readme, last, specials>>

(***************************************************************************)
(* Sidebar: the save and rollback handlers and their modal dialogs.  Both  *)
(* dialogs are modal, so a handler that waits in one is the only handler   *)
(* in flight; generation may still finish and save a version meanwhile.    *)
(***************************************************************************)
\* No handler has run
NoDialog == [handler |-> "none", stage |-> "idle", content |-> EmptyText,
             versionId |-> NoId, existed |-> FALSE, answer |-> "none",
             before |-> NoReadme, wrote |-> FALSE, temp |-> FALSE]

\* What the modal of promptForExistingReadme resolves to; "undefined" is
\* the dismissed dialog.
PromptChoices == {"Compare (Diff View)", "Overwrite", "Cancel", "undefined"}

\* What the modal of handleRollback resolves to
ConfirmChoices == {"Restore", "undefined"}

\* promptForExistingReadme: the action for the button picked
promptForExistingReadme(choice) ==
    CASE choice = "Compare (Diff View)" -> "diff"
      [] choice = "Overwrite" -> "overwrite"
      [] OTHER -> "cancel"

\* Mutant of handleSaveSwitch: the 'diff' case lacks its return and falls
\* through to the save.
handleSaveSwitchFallThrough(action) == action # "cancel"

\* The switch of handleSave: TRUE iff control goes on to saveReadme
handleSaveSwitch(action) ==
    CASE action = "diff" -> FALSE
      [] action = "cancel" -> FALSE
      [] action = "overwrite" -> TRUE

\* saveReadme(root, content): README.md after the call; writable says
\* whether writeFile succeeds.
saveReadme(content, writable) ==
    IF writable THEN [exists |-> TRUE, content |-> content] ELSE readme

\* handleSave(data) up to its dialog: hasProject is _projectInfo being set,
\* data is data.content and generated is _generatedContent.
handleSave(hasProject, data, generated, writable) ==
    /\ ui.stage # "prompt"
    /\ LET content == IF data # EmptyText THEN data ELSE generated
           entered == [NoDialog EXCEPT !.handler = "handleSave",
                                       !.content = content,
                                       !.existed = readme.exists,
                                       !.before = readme]
       IN  IF ~hasProject \/ content = EmptyText
           THEN /\ ui' = [entered EXCEPT !.stage = "done"]
                /\ UNCHANGED readme
           ELSE IF readme.exists
           THEN /\ ui' = [entered EXCEPT !.stage = "prompt"]
                /\ UNCHANGED readme
           ELSE /\ readme' = saveReadme(content, writable)
                /\ ui' = [entered EXCEPT !.stage = "done", !.wrote = writable]
    /\ UNCHANGED <<genVars, clsVars, stepVars, callVars, now, store, last, specials>>

\* handleSave from the answer of its dialog on: showDiff writes only the
\* temporary files of the comparison.
handleSaveAnswered(choice, writable) ==
    /\ ui.handler = "handleSave"
    /\ ui.stage = "prompt"
    /\ LET action == promptForExistingReadme(choice)
       IN  IF handleSaveSwitch(action)
           THEN /\ readme' = saveReadme(ui.content, writable)
                /\ ui' = [ui EXCEPT !.stage = "done", !.answer = action,
                                    !.wrote = writable,
                                    !.temp = (action = "diff")]
           ELSE /\ UNCHANGED readme
                /\ ui' = [ui EXCEPT !.stage = "done", !.answer = action,
                                    !.temp = (action = "diff")]
    /\ UNCHANGED <<genVars, clsVars, stepVars, callVars, now, store, last, specials>>

\* handleRollback(versionId) up to its dialog
handleRollback(hasProject, id) ==
    /\ ui.stage # "prompt"
    /\ LET entered == [NoDialog EXCEPT !.handler = "handleRollback",
                                       !.versionId = id,
                                       !.existed = readme.exists,
                                       !.before = readme]
       IN  ui' = [entered EXCEPT !.stage = IF hasProject THEN "prompt" ELSE "done"]
    /\ UNCHANGED <<genVars, clsVars, stepVars, callVars, histVars>>

\* handleRollback from the answer of its dialog on
handleRollbackAnswered(confirm) ==
    /\ ui.handler = "handleRollback"
    /\ ui.stage = "prompt"
    /\ IF confirm = "Restore"
       THEN /\ RollbackWrite(ui.versionId)
            /\ ui' = [ui EXCEPT !.stage = "done", !.answer = confirm,
                                !.wrote = ~Falsy(getVersionContent(store, ui.versionId))]
       ELSE /\ UNCHANGED <<readme, last>>
            /\ ui' = [ui EXCEPT !.stage = "done", !.answer = confirm]
    /\ UNCHANGED <<genVars, clsVars, stepVars, callVars, now, store, specials>>

InitSidebar == ui = NoDialog

\* The sidebar runs start from a history of up to MaxSaved milliseconds that
\* earlier generations left, and from a README.md that is absent or holds
\* any content.
MaxSaved == 2

SavedVersions ==
    {[ts |-> t, hash |-> generateHash(c), content |-> c] :
        t \in 1..MaxSaved, c \in Contents}

NextSave ==
    \/ \E hasProject \in BOOLEAN, data \in Contents, generated \in Contents,
          writable \in BOOLEAN : handleSave(hasProject, data, generated, writable)
    \/ \E choice \in PromptChoices, writable \in BOOLEAN :
          handleSaveAnswered(choice, writable)
    \/ \E hasProject \in BOOLEAN, id \in RollbackTargets : handleRollback(hasProject, id)
    \/ \E confirm \in ConfirmChoices : handleRollbackAnswered(confirm)

(***************************************************************************)
(* Project analysis: the scanned ProjectInfo, framework detection and the  *)
(* project-type classifier.  Confidences are in hundredths (0.85 is 85).   *)
(***************************************************************************)
\* Largest number of marks (manifest entries and files) of a scanned project.
MaxMarks == 3

\* What a scanned project may hold: the manifest itself, entries of its
\* dependencies / devDependencies / keywords, top-level manifest fields, and
\* files or directories at the project root.
Marks ==
    {<<"manifest", "package.json">>}
    \cup {<<"dependency", d>> : d \in {"react", "express", "next", "react-native"}}
    \cup {<<"devDependency", "electron">>}
    \cup {<<"field", f>> : f \in {"workspaces", "bin", "main", "types", "typings",
                                  "exports", "private"}}
    \cup {<<"keyword", "my-CLI">>}
    \cup {<<"file", n>> : n \in {"lerna.json", "index.html", "server.js"}}
    \cup {<<"directory", "public">>}

Named(marks, kind) == {m[2] : m \in {x \in marks : x[1] = kind}}

\* Config files the scanner recognises by name.
CONFIG_FILES ==
    {"package.json", "tsconfig.json", "webpack.config.js", "vite.config.js",
     "vite.config.ts", "next.config.js", "next.config.mjs", "nuxt.config.js",
     "nuxt.config.ts", "angular.json", "vue.config.js", "rollup.config.js",
     "esbuild.config.js", "requirements.txt", "Pipfile", "pyproject.toml",
     "setup.py", "Cargo.toml", "go.mod", "Gemfile", "composer.json", "pom.xml",
     "build.gradle", "CMakeLists.txt", "Makefile", "Dockerfile",
     "docker-compose.yml", "docker-compose.yaml", ".travis.yml",
     ".github/workflows", "Jenkinsfile", "azure-pipelines.yml", "README.md",
     "LICENSE", "CONTRIBUTING.md", "CHANGELOG.md"}

\* The manifest as the scanner parses it; present = FALSE is a missing (or
\* unparsable) package.json, for which every pkg?.x below is undefined.
readPackageJson(marks) ==
    [present |-> \E m \in marks : m[1] \in {"manifest", "dependency",
                                            "devDependency", "field", "keyword"},
     dependencies |-> Named(marks, "dependency"),
     devDependencies |-> Named(marks, "devDependency"),
     fields |-> Named(marks, "field"),
     keywords |-> Named(marks, "keyword")]

\* The order in which readdir lists the names (alphabetical), which is the
\* order of the file list.
DirectoryOrder ==
    <<"App.jsx", "Cargo.toml", "Dockerfile", "Gemfile", "Pipfile", "build.gradle",
      "bun.lockb", "composer.json", "go.mod", "index.html", "lerna.json", "lib.rs", "main.go",
      "package-lock.json", "package.json", "pnpm-lock.yaml", "pom.xml", "public",
      "requirements.txt", "server.js", "style.css", "types.ts", "util.js", "util.py",
      "vendor.js", "yarn.lock">>

Position(name) == CHOOSE k \in 1..Len(DirectoryOrder) : DirectoryOrder[k] = name

\* A ProjectFile: its name, whether it is a directory, and its position in
\* the file list.
ProjectFile(name, isDirectory, index) ==
    [name |-> name, isDirectory |-> isDirectory, index |-> index]

\* scanWorkspace: the file list, the manifest and the config files among the
\* (root-level) files.
scanWorkspace(marks) ==
    LET files == {ProjectFile(n, FALSE, Position(n)) : n \in Named(marks, "file")}
                 \cup {ProjectFile(n, TRUE, Position(n)) : n \in Named(marks, "directory")}
    IN  [files |-> files,
         packageJson |-> readPackageJson(marks),
         configFiles |-> {f.name : f \in {x \in files : ~x.isDirectory /\ x.name \in CONFIG_FILES}}]

ProjectInfos == {scanWorkspace(marks) : marks \in {s \in SUBSET Marks : Cardinality(s) <= MaxMarks}}

\* File extension as path.extname gives it, for the names that matter here.
extension(name) ==
    CASE name \in {"App.vue"} -> ".vue"
      [] name \in {"App.svelte"} -> ".svelte"
      [] name \in {"server.js", "util.js", "vendor.js"} -> ".js"
      [] name = "App.jsx" -> ".jsx"
      [] name = "types.ts" -> ".ts"
      [] name = "util.py" -> ".py"
      [] name = "main.go" -> ".go"
      [] name = "lib.rs" -> ".rs"
      [] name = "style.css" -> ".css"
      [] name = "index.html" -> ".html"
      [] name \in {"lerna.json", "package.json", "package-lock.json", "composer.json"} -> ".json"
      [] OTHER -> ""

\* String.includes on the config-file names of CONFIG_FILES.
Includes(name, part) ==
    CASE part = "next.config" -> name \in {"next.config.js", "next.config.mjs"}
      [] part = "nuxt.config" -> name \in {"nuxt.config.js", "nuxt.config.ts"}
      [] part = "vite.config" -> name \in {"vite.config.js", "vite.config.ts"}
      [] part = "webpack.config" -> name \in {"webpack.config.js"}
      [] OTHER -> FALSE

Dep(i, d) == i.packageJson.present /\ d \in i.packageJson.dependencies
DevDep(i, d) == i.packageJson.present /\ d \in i.packageJson.devDependencies
HasFile(i, names) == \E f \in i.files : f.name \in names

\* The names of FRAMEWORK_RULES, in list order.
FRAMEWORK_RULES ==
    <<"React", "Next.js", "Vue.js", "Nuxt.js", "Angular", "Svelte", "Express.js",
      "Fastify", "NestJS", "Electron", "React Native", "Django", "Flask",
      "FastAPI", "Flutter", "Spring Boot", "Vite", "Webpack", "Tailwind CSS">>

\* rule.detect(info) of the rule called name.
detect(name, i) ==
    CASE name = "React" -> IF Dep(i, "react") \/ DevDep(i, "react") THEN 100 ELSE 0
      [] name = "Next.js" ->
            IF Dep(i, "next") \/ (\E f \in i.configFiles : Includes(f, "next.config"))
            THEN 100 ELSE 0
      [] name = "Vue.js" ->
            IF Dep(i, "vue") THEN 100
            ELSE IF \E f \in i.files : extension(f.name) = ".vue" THEN 90 ELSE 0
      [] name = "Nuxt.js" ->
            IF Dep(i, "nuxt") \/ (\E f \in i.configFiles : Includes(f, "nuxt.config"))
            THEN 100 ELSE 0
      [] name = "Angular" ->
            IF Dep(i, "@angular/core") \/ "angular.json" \in i.configFiles THEN 100 ELSE 0
      [] name = "Svelte" ->
            IF Dep(i, "svelte") THEN 100
            ELSE IF \E f \in i.files : extension(f.name) = ".svelte" THEN 90 ELSE 0
      [] name = "Express.js" -> IF Dep(i, "express") THEN 100 ELSE 0
      [] name = "Fastify" -> IF Dep(i, "fastify") THEN 100 ELSE 0
      [] name = "NestJS" -> IF Dep(i, "@nestjs/core") THEN 100 ELSE 0
      [] name = "Electron" -> IF Dep(i, "electron") \/ DevDep(i, "electron") THEN 100 ELSE 0
      [] name = "React Native" -> IF Dep(i, "react-native") THEN 100 ELSE 0
      [] name = "Django" ->
            IF "manage.py" \in i.configFiles THEN 90
            ELSE IF HasFile(i, {"settings.py"}) THEN 70 ELSE 0
      [] name = "Flask" -> IF HasFile(i, {"requirements.txt", "Pipfile"}) THEN 50 ELSE 0
      [] name = "FastAPI" -> 0
      [] name = "Flutter" -> IF HasFile(i, {"pubspec.yaml"}) THEN 100 ELSE 0
      [] name = "Spring Boot" ->
            IF "pom.xml" \in i.configFiles \/ "build.gradle" \in i.configFiles THEN 50 ELSE 0
      [] name = "Vite" ->
            IF DevDep(i, "vite") \/ (\E f \in i.configFiles : Includes(f, "vite.config"))
            THEN 100 ELSE 0
      [] name = "Webpack" ->
            IF DevDep(i, "webpack") \/ (\E f \in i.configFiles : Includes(f, "webpack.config"))
            THEN 100 ELSE 0
      [] name = "Tailwind CSS" ->
            IF Dep(i, "tailwindcss") \/ DevDep(i, "tailwindcss")
               \/ HasFile(i, {"tailwind.config.js", "tailwind.config.ts"})
            THEN 100 ELSE 0

Framework(name, confidence) == [name |-> name, confidence |-> confidence]

\* Array.prototype.sort by confidence descending: stable, so equal
\* confidences keep the rule order.
RECURSIVE SortByConfidence(_)
SortByConfidence(fs) ==
    IF fs = <<>> THEN <<>>
    ELSE LET best == CHOOSE k \in 1..Len(fs) :
                        /\ \A j \in 1..Len(fs) : fs[j].confidence <= fs[k].confidence
                        /\ \A j \in 1..(k - 1) : fs[j].confidence < fs[k].confidence
         IN  <<fs[best]>> \o SortByConfidence(SubSeq(fs, 1, best - 1)
                                              \o SubSeq(fs, best + 1, Len(fs)))

RECURSIVE PushDetected(_, _)
PushDetected(i, k) ==
    IF k > Len(FRAMEWORK_RULES) THEN <<>>
    ELSE LET confidence == detect(FRAMEWORK_RULES[k], i)
         IN  (IF confidence > 0 THEN <<Framework(FRAMEWORK_RULES[k], confidence)>> ELSE <<>>)
             \o PushDetected(i, k + 1)

detectFrameworks(i) == SortByConfidence(PushDetected(i, 1))

\* Language mapping by extension.
LANGUAGE_MAP ==
    (".js" :> "JavaScript") @@ (".jsx" :> "JavaScript (React)")
    @@ (".ts" :> "TypeScript") @@ (".tsx" :> "TypeScript (React)")
    @@ (".mjs" :> "JavaScript (ESM)") @@ (".cjs" :> "JavaScript (CommonJS)")
    @@ (".py" :> "Python") @@ (".pyw" :> "Python") @@ (".java" :> "Java")
    @@ (".kt" :> "Kotlin") @@ (".scala" :> "Scala") @@ (".go" :> "Go")
    @@ (".rs" :> "Rust") @@ (".rb" :> "Ruby") @@ (".php" :> "PHP")
    @@ (".cs" :> "C#") @@ (".fs" :> "F#") @@ (".cpp" :> "C++") @@ (".c" :> "C")
    @@ (".h" :> "C/C++ Header") @@ (".hpp" :> "C++ Header")
    @@ (".swift" :> "Swift") @@ (".dart" :> "Dart") @@ (".vue" :> "Vue.js")
    @@ (".svelte" :> "Svelte") @@ (".html" :> "HTML") @@ (".css" :> "CSS")
    @@ (".scss" :> "SCSS") @@ (".sass" :> "Sass") @@ (".less" :> "Less")

\* lang.name.split(' ')[0]
BaseName(name) ==
    CASE name \in {"JavaScript (React)", "JavaScript (ESM)", "JavaScript (CommonJS)"} -> "JavaScript"
      [] name = "TypeScript (React)" -> "TypeScript"
      [] name = "C/C++ Header" -> "C/C++"
      [] name = "C++ Header" -> "C++"
      [] OTHER -> name

\* name.startsWith(base), for the labels of LANGUAGE_MAP and their base names.
StartsWith(name, base) ==
    \/ name = base
    \/ BaseName(name) = base
    \/ base = "Java" /\ BaseName(name) = "JavaScript"
    \/ base = "C" /\ name \in {"C++", "C#", "C/C++ Header", "C++ Header", "CSS"}

\* The files the histogram counts.
Recognized(i) ==
    {f \in i.files : ~f.isDirectory /\ extension(f.name) \in DOMAIN LANGUAGE_MAP}

\* The keys of extensionCounts, in insertion order: the order in which the
\* extensions first occur in the file list.
RECURSIVE ExtensionsInOrder(_)
ExtensionsInOrder(fs) ==
    IF fs = {} THEN <<>>
    ELSE LET first == CHOOSE f \in fs : \A g \in fs : f.index <= g.index
             ext == extension(first.name)
         IN  <<ext>> \o ExtensionsInOrder({f \in fs : extension(f.name) # ext})

\* Math.round((count / totalFiles) * 100)
Percentage(count, totalFiles) == (200 * count + totalFiles) \div (2 * totalFiles)

LanguageStat(name, percentage, fileCount) ==
    [name |-> name, percentage |-> percentage, fileCount |-> fileCount]

\* languages.sort((a, b) => b.fileCount - a.fileCount): stable.
RECURSIVE SortByFileCount(_)
SortByFileCount(ls) ==
    IF ls = <<>> THEN <<>>
    ELSE LET best == CHOOSE k \in 1..Len(ls) :
                        /\ \A j \in 1..Len(ls) : ls[j].fileCount <= ls[k].fileCount
                        /\ \A j \in 1..(k - 1) : ls[j].fileCount < ls[k].fileCount
         IN  <<ls[best]>> \o SortByFileCount(SubSeq(ls, 1, best - 1)
                                             \o SubSeq(ls, best + 1, Len(ls)))

\* The merge loop: a language whose base name was seen is added to the first
\* merged entry whose name starts with that base name.
RECURSIVE MergeSimilar(_, _)
MergeSimilar(ls, merged) ==
    IF ls = <<>> THEN merged
    ELSE LET lang == Head(ls)
             baseName == BaseName(lang.name)
             seen == {BaseName(merged[k].name) : k \in 1..Len(merged)}
             hits == {k \in 1..Len(merged) : StartsWith(merged[k].name, baseName)}
         IN  IF baseName \notin seen THEN MergeSimilar(Tail(ls), Append(merged, lang))
             ELSE IF hits = {} THEN MergeSimilar(Tail(ls), merged)
             ELSE LET e == CHOOSE k \in hits : \A j \in hits : k <= j
                  IN  MergeSimilar(Tail(ls),
                        [merged EXCEPT ![e] = LanguageStat(merged[e].name,
                                                 merged[e].percentage + lang.percentage,
                                                 merged[e].fileCount + lang.fileCount)])

\* merged.slice(0, 5)
TopLanguages == 5

Slice(seq, n) == SubSeq(seq, 1, IF Len(seq) < n THEN Len(seq) ELSE n)

\* Mutant of detectLanguages: directories are counted as files too.
detectLanguagesCountingDirectories(i) ==
    LET files == {f \in i.files : extension(f.name) \in DOMAIN LANGUAGE_MAP}
        totalFiles == Cardinality(files)
        exts == ExtensionsInOrder(files)
        languages == [k \in 1..Len(exts) |->
                        LET count == Cardinality({f \in files : extension(f.name) = exts[k]})
                        IN  LanguageStat(LANGUAGE_MAP[exts[k]],
                                         Percentage(count, totalFiles), count)]
    IN  IF totalFiles = 0 THEN <<>>
        ELSE Slice(MergeSimilar(SortByFileCount(languages), <<>>), TopLanguages)

detectLanguages(i) ==
    LET files == Recognized(i)
        totalFiles == Cardinality(files)
        exts == ExtensionsInOrder(files)
        languages == [k \in 1..Len(exts) |->
                        LET count == Cardinality({f \in files : extension(f.name) = exts[k]})
                        IN  LanguageStat(LANGUAGE_MAP[exts[k]],
                                         Percentage(count, totalFiles), count)]
    IN  IF totalFiles = 0 THEN <<>>
        ELSE Slice(MergeSimilar(SortByFileCount(languages), <<>>), TopLanguages)

\* A null package manager.
NoPackageManager == "null"

FileNames(i) == {f.name : f \in i.files}

\* Mutant of detectPackageManager: the npm lockfile is looked for first.
detectPackageManagerNpmFirst(i) ==
    LET files == FileNames(i)
    IN  IF "package-lock.json" \in files THEN "npm"
        ELSE IF "pnpm-lock.yaml" \in files THEN "pnpm"
        ELSE IF "yarn.lock" \in files THEN "yarn"
        ELSE IF "bun.lockb" \in files THEN "bun"
        ELSE IF "package.json" \in files THEN "npm"
        ELSE IF "requirements.txt" \in files \/ "Pipfile" \in files THEN "pip"
        ELSE IF "Cargo.toml" \in files THEN "cargo"
        ELSE IF "go.mod" \in files THEN "go mod"
        ELSE IF "Gemfile" \in files THEN "bundler"
        ELSE IF "composer.json" \in files THEN "composer"
        ELSE IF "pom.xml" \in files THEN "maven"
        ELSE IF "build.gradle" \in files THEN "gradle"
        ELSE NoPackageManager

\* Mutant of detectPackageManager: npm is the answer when no marker file is
\* found.
detectPackageManagerDefaultNpm(i) ==
    LET files == FileNames(i)
    IN  IF "pnpm-lock.yaml" \in files THEN "pnpm"
        ELSE IF "yarn.lock" \in files THEN "yarn"
        ELSE IF "package-lock.json" \in files THEN "npm"
        ELSE IF "bun.lockb" \in files THEN "bun"
        ELSE IF "package.json" \in files THEN "npm"
        ELSE IF "requirements.txt" \in files \/ "Pipfile" \in files THEN "pip"
        ELSE IF "Cargo.toml" \in files THEN "cargo"
        ELSE IF "go.mod" \in files THEN "go mod"
        ELSE IF "Gemfile" \in files THEN "bundler"
        ELSE IF "composer.json" \in files THEN "composer"
        ELSE IF "pom.xml" \in files THEN "maven"
        ELSE IF "build.gradle" \in files THEN "gradle"
        ELSE "npm"

detectPackageManager(i) ==
    LET files == FileNames(i)
    IN  IF "pnpm-lock.yaml" \in files THEN "pnpm"
        ELSE IF "yarn.lock" \in files THEN "yarn"
        ELSE IF "package-lock.json" \in files THEN "npm"
        ELSE IF "bun.lockb" \in files THEN "bun"
        ELSE IF "package.json" \in files THEN "npm"
        ELSE IF "requirements.txt" \in files \/ "Pipfile" \in files THEN "pip"
        ELSE IF "Cargo.toml" \in files THEN "cargo"
        ELSE IF "go.mod" \in files THEN "go mod"
        ELSE IF "Gemfile" \in files THEN "bundler"
        ELSE IF "composer.json" \in files THEN "composer"
        ELSE IF "pom.xml" \in files THEN "maven"
        ELSE IF "build.gradle" \in files THEN "gradle"
        ELSE NoPackageManager

\* f.includes(part) on the config-file names, for the build-tool checks.
NameContains(name, part) ==
    CASE part = "webpack" -> name \in {"webpack.config.js"}
      [] part = "vite" -> name \in {"vite.config.js", "vite.config.ts"}
      [] part = "rollup" -> name \in {"rollup.config.js"}
      [] OTHER -> FALSE

\* The tools found, in the order the checks are made.
Found(checks) == SelectSeq(checks, LAMBDA c : c[2])

Names(found) == [k \in 1..Len(found) |-> found[k][1]]

detectBuildTools(i) ==
    Names(Found(<<
        <<"Webpack", DevDep(i, "webpack") \/ \E f \in i.configFiles : NameContains(f, "webpack")>>,
        <<"Vite", DevDep(i, "vite") \/ \E f \in i.configFiles : NameContains(f, "vite")>>,
        <<"Rollup", DevDep(i, "rollup") \/ \E f \in i.configFiles : NameContains(f, "rollup")>>,
        <<"esbuild", DevDep(i, "esbuild")>>,
        <<"Parcel", DevDep(i, "parcel")>>,
        <<"Make", "Makefile" \in i.configFiles>>,
        <<"CMake", "CMakeLists.txt" \in i.configFiles>> >>))

detectTestFrameworks(i) ==
    Names(Found(<<
        <<"Jest", DevDep(i, "jest")>>,
        <<"Mocha", DevDep(i, "mocha")>>,
        <<"Vitest", DevDep(i, "vitest")>>,
        <<"Cypress", DevDep(i, "cypress")>>,
        <<"Playwright", DevDep(i, "playwright") \/ DevDep(i, "@playwright/test")>>,
        <<"React Testing Library", DevDep(i, "@testing-library/react")>>,
        <<"Jasmine", DevDep(i, "jasmine")>>,
        <<"AVA", DevDep(i, "ava")>> >>))

detectAll(i) ==
    [languages |-> detectLanguages(i),
     frameworks |-> detectFrameworks(i),
     packageManager |-> detectPackageManager(i),
     buildTools |-> detectBuildTools(i),
     testFrameworks |-> detectTestFrameworks(i)]

\* frameworks.some(f => names.includes(f.name))
SomeFramework(frameworks, names) == \E k \in 1..Len(frameworks) : frameworks[k].name \in names

\* frameworks.find(f => names.includes(f.name))?.name
FindFramework(frameworks, names) ==
    frameworks[CHOOSE k \in 1..Len(frameworks) :
                  /\ frameworks[k].name \in names
                  /\ \A j \in 1..(k - 1) : frameworks[j].name \notin names].name

ProjectTypeResult(type, displayName, confidence, reason) ==
    [type |-> type, displayName |-> displayName, confidence |-> confidence,
     reason |-> reason]

Using(frameworks, names) == <<"Using", FindFramework(frameworks, names)>>

mobileFrameworks == {"React Native", "Flutter", "Ionic", "Cordova"}

desktopFrameworks == {"Electron", "Tauri"}

fullstackFrameworks == {"Next.js", "Nuxt.js", "SvelteKit", "Remix"}

frontendFrameworks == {"React", "Vue.js", "Angular", "Svelte"}

\* Mutant of backendFrameworks: Express.js is missing from the list.
backendFrameworksWithoutExpress ==
    {"Fastify", "NestJS", "Django", "Flask", "FastAPI", "Spring Boot"}

backendFrameworks ==
    {"Express.js", "Fastify", "NestJS", "Django", "Flask", "FastAPI", "Spring Boot"}

\* pkg?.<field> !== undefined (for workspaces: a truthy value)
HasField(pkg, f) == pkg.present /\ f \in pkg.fields

hasWorkspaces(i) ==
    HasField(i.packageJson, "workspaces") \/ HasFile(i, {"lerna.json", "pnpm-workspace.yaml"})

\* k.toLowerCase().includes('cli') || k.toLowerCase().includes('command')
IsCliKeyword(k) == k \in {"cli", "my-CLI", "command-line"}

hasCliKeyword(pkg) == pkg.present /\ \E k \in pkg.keywords : IsCliKeyword(k)

isPrivate(pkg) == HasField(pkg, "private")

Bit(b) == IF b THEN 1 ELSE 0

\* The number of present fields among main, types/typings, exports (as a
\* mutant of libraryScore: the point for a non-private manifest is missing).
libraryScoreFieldsOnly(pkg) ==
    Bit(HasField(pkg, "main"))
    + Bit(HasField(pkg, "types") \/ HasField(pkg, "typings"))
    + Bit(HasField(pkg, "exports"))

libraryScore(pkg) ==
    Bit(HasField(pkg, "main"))
    + Bit(HasField(pkg, "types") \/ HasField(pkg, "typings"))
    + Bit(HasField(pkg, "exports"))
    + Bit(~isPrivate(pkg))

hasServerFile(i) ==
    HasFile(i, {"server.js", "server.ts", "app.js", "app.ts", "index.js", "main.py", "app.py"})

\* The rules after the workspace check, in source order.
classifyBeyondWorkspaces(i, detected) ==
    LET pkg == i.packageJson
        frameworks == detected.frameworks
        hasFrontendFramework == SomeFramework(frameworks, frontendFrameworks)
        hasBackendFramework == SomeFramework(frameworks, backendFrameworks)
        hasPublicFolder == \E f \in i.files : f.name = "public" /\ f.isDirectory
        hasIndexHtml == HasFile(i, {"index.html"})
    IN  IF SomeFramework(frameworks, mobileFrameworks)
        THEN ProjectTypeResult("mobile", "Mobile App", 95, Using(frameworks, mobileFrameworks))
        ELSE IF SomeFramework(frameworks, desktopFrameworks)
        THEN ProjectTypeResult("desktop", "Desktop App", 95, Using(frameworks, desktopFrameworks))
        ELSE IF HasField(pkg, "bin") \/ hasCliKeyword(pkg)
        THEN ProjectTypeResult("cli", "CLI Tool", 85,
                               IF HasField(pkg, "bin") THEN <<"Has bin field in package.json">>
                               ELSE <<"CLI-related keywords">>)
        ELSE IF libraryScore(pkg) >= 2 /\ ~isPrivate(pkg)
        THEN ProjectTypeResult("library", "Library/Package", 70 + libraryScore(pkg) * 5,
                               <<"Has library configuration (main, types, exports)">>)
        ELSE IF SomeFramework(frameworks, fullstackFrameworks)
        THEN ProjectTypeResult("fullstack", "Full-Stack App", 90,
                               Using(frameworks, fullstackFrameworks))
        ELSE IF hasFrontendFramework /\ hasBackendFramework
        THEN ProjectTypeResult("fullstack", "Full-Stack App", 85,
                               <<"Has both frontend and backend frameworks">>)
        ELSE IF hasFrontendFramework
        THEN ProjectTypeResult("web-app", "Web Application", 85,
                               Using(frameworks, frontendFrameworks))
        ELSE IF hasBackendFramework
        THEN ProjectTypeResult("backend", "Backend/API", 85,
                               Using(frameworks, backendFrameworks))
        ELSE IF hasPublicFolder \/ hasIndexHtml
        THEN ProjectTypeResult("web-app", "Web Application", 60,
                               <<"Has public folder or index.html">>)
        ELSE IF hasServerFile(i) /\ ~hasPublicFolder /\ ~hasIndexHtml
        THEN ProjectTypeResult("backend", "Backend/API", 60, <<"Has server entry file">>)
        ELSE ProjectTypeResult("unknown", "Project", 30,
                               <<"Could not determine project type">>)

Monorepo == ProjectTypeResult("monorepo", "Monorepo", 90, <<"Detected workspace configuration">>)

\* Mutant of detectProjectType: the mobile check precedes the workspace check.
detectProjectTypeMobileFirst(i, detected) ==
    IF SomeFramework(detected.frameworks, mobileFrameworks)
    THEN classifyBeyondWorkspaces(i, detected)
    ELSE IF hasWorkspaces(i) THEN Monorepo
    ELSE classifyBeyondWorkspaces(i, detected)

detectProjectType(i, detected) ==
    IF hasWorkspaces(i) THEN Monorepo
    ELSE classifyBeyondWorkspaces(i, detected)

(***************************************************************************)
(* Badges (generator/badgeGenerator)                                       *)
(***************************************************************************)
\* The badge database: badge key -> label (config.name with %20, %2B and %23
\* decoded).
TECH_BADGES ==
    ("javascript" :> "JavaScript") @@ ("typescript" :> "TypeScript")
    @@ ("python" :> "Python") @@ ("java" :> "Java") @@ ("go" :> "Go")
    @@ ("rust" :> "Rust") @@ ("ruby" :> "Ruby") @@ ("php" :> "PHP")
    @@ ("csharp" :> "C#") @@ ("cpp" :> "C++") @@ ("c" :> "C") @@ ("swift" :> "Swift")
    @@ ("kotlin" :> "Kotlin") @@ ("dart" :> "Dart") @@ ("html" :> "HTML5")
    @@ ("css" :> "CSS3") @@ ("sass" :> "Sass") @@ ("lua" :> "Lua") @@ ("perl" :> "Perl")
    @@ ("r" :> "R") @@ ("scala" :> "Scala") @@ ("elixir" :> "Elixir")
    @@ ("haskell" :> "Haskell") @@ ("clojure" :> "Clojure") @@ ("react" :> "React")
    @@ ("vue" :> "Vue.js") @@ ("angular" :> "Angular") @@ ("svelte" :> "Svelte")
    @@ ("next" :> "Next.js") @@ ("nuxt" :> "Nuxt.js") @@ ("gatsby" :> "Gatsby")
    @@ ("astro" :> "Astro") @@ ("solid" :> "Solid.js") @@ ("remix" :> "Remix")
    @@ ("preact" :> "Preact") @@ ("alpine" :> "Alpine.js") @@ ("htmx" :> "HTMX")
    @@ ("node" :> "Node.js") @@ ("express" :> "Express") @@ ("nestjs" :> "NestJS")
    @@ ("fastify" :> "Fastify") @@ ("koa" :> "Koa") @@ ("django" :> "Django")
    @@ ("flask" :> "Flask") @@ ("fastapi" :> "FastAPI") @@ ("spring" :> "Spring")
    @@ ("rails" :> "Rails") @@ ("laravel" :> "Laravel") @@ ("gin" :> "Gin")
    @@ ("fiber" :> "Fiber") @@ ("actix" :> "Actix") @@ ("deno" :> "Deno")
    @@ ("bun" :> "Bun") @@ ("tailwind" :> "Tailwind") @@ ("bootstrap" :> "Bootstrap")
    @@ ("mui" :> "MUI") @@ ("chakra" :> "Chakra UI") @@ ("antdesign" :> "Ant Design")
    @@ ("shadcn" :> "shadcn/ui") @@ ("radix" :> "Radix UI") @@ ("bulma" :> "Bulma")
    @@ ("styled" :> "Styled Components") @@ ("mongodb" :> "MongoDB")
    @@ ("postgresql" :> "PostgreSQL") @@ ("mysql" :> "MySQL") @@ ("sqlite" :> "SQLite")
    @@ ("redis" :> "Redis") @@ ("supabase" :> "Supabase") @@ ("firebase" :> "Firebase")
    @@ ("prisma" :> "Prisma") @@ ("dynamodb" :> "DynamoDB")
    @@ ("elasticsearch" :> "Elasticsearch") @@ ("neo4j" :> "Neo4j")
    @@ ("cassandra" :> "Cassandra") @@ ("couchdb" :> "CouchDB")
    @@ ("mariadb" :> "MariaDB") @@ ("jest" :> "Jest") @@ ("mocha" :> "Mocha")
    @@ ("cypress" :> "Cypress") @@ ("playwright" :> "Playwright")
    @@ ("vitest" :> "Vitest") @@ ("pytest" :> "Pytest") @@ ("junit" :> "JUnit5")
    @@ ("webpack" :> "Webpack") @@ ("vite" :> "Vite") @@ ("rollup" :> "Rollup")
    @@ ("esbuild" :> "esbuild") @@ ("turbopack" :> "Turbopack")
    @@ ("parcel" :> "Parcel") @@ ("gulp" :> "Gulp") @@ ("grunt" :> "Grunt")
    @@ ("docker" :> "Docker") @@ ("kubernetes" :> "Kubernetes") @@ ("git" :> "Git")
    @@ ("github" :> "GitHub") @@ ("gitlab" :> "GitLab")
    @@ ("actions" :> "GitHub Actions") @@ ("jenkins" :> "Jenkins")
    @@ ("circleci" :> "CircleCI") @@ ("nginx" :> "Nginx") @@ ("apache" :> "Apache")
    @@ ("aws" :> "AWS") @@ ("azure" :> "Azure") @@ ("gcp" :> "Google Cloud")
    @@ ("vercel" :> "Vercel") @@ ("netlify" :> "Netlify") @@ ("heroku" :> "Heroku")
    @@ ("digitalocean" :> "DigitalOcean") @@ ("cloudflare" :> "Cloudflare")
    @@ ("railway" :> "Railway") @@ ("render" :> "Render") @@ ("eslint" :> "ESLint")
    @@ ("prettier" :> "Prettier") @@ ("biome" :> "Biome")
    @@ ("reactnative" :> "React Native") @@ ("flutter" :> "Flutter")
    @@ ("expo" :> "Expo") @@ ("ionic" :> "Ionic") @@ ("tensorflow" :> "TensorFlow")
    @@ ("pytorch" :> "PyTorch") @@ ("openai" :> "OpenAI")
    @@ ("langchain" :> "LangChain") @@ ("npm" :> "npm") @@ ("yarn" :> "Yarn")
    @@ ("pnpm" :> "pnpm") @@ ("pip" :> "pip") @@ ("cargo" :> "Cargo")

\* Detected language name -> badge key.
BADGE_LANGUAGE_MAP ==
    ("JavaScript" :> "javascript") @@ ("TypeScript" :> "typescript")
    @@ ("Python" :> "python") @@ ("Java" :> "java") @@ ("Go" :> "go")
    @@ ("Rust" :> "rust") @@ ("Ruby" :> "ruby") @@ ("PHP" :> "php")
    @@ ("C#" :> "csharp") @@ ("C++" :> "cpp") @@ ("C" :> "c") @@ ("Swift" :> "swift")
    @@ ("Kotlin" :> "kotlin") @@ ("Dart" :> "dart") @@ ("HTML" :> "html")
    @@ ("CSS" :> "css") @@ ("Sass" :> "sass") @@ ("SCSS" :> "sass") @@ ("Lua" :> "lua")
    @@ ("Perl" :> "perl") @@ ("R" :> "r") @@ ("Scala" :> "scala")
    @@ ("Elixir" :> "elixir") @@ ("Haskell" :> "haskell") @@ ("Clojure" :> "clojure")

\* Detected framework name -> badge key.
FRAMEWORK_MAP ==
    ("React" :> "react") @@ ("Vue.js" :> "vue") @@ ("Vue" :> "vue")
    @@ ("Angular" :> "angular") @@ ("Svelte" :> "svelte") @@ ("Next.js" :> "next")
    @@ ("Nuxt.js" :> "nuxt") @@ ("Gatsby" :> "gatsby") @@ ("Astro" :> "astro")
    @@ ("Remix" :> "remix") @@ ("Express" :> "express") @@ ("NestJS" :> "nestjs")
    @@ ("Fastify" :> "fastify") @@ ("Koa" :> "koa") @@ ("Django" :> "django")
    @@ ("Flask" :> "flask") @@ ("FastAPI" :> "fastapi") @@ ("Spring Boot" :> "spring")
    @@ ("Ruby on Rails" :> "rails") @@ ("Laravel" :> "laravel") @@ ("Gin" :> "gin")
    @@ ("TailwindCSS" :> "tailwind") @@ ("Tailwind CSS" :> "tailwind")
    @@ ("Bootstrap" :> "bootstrap") @@ ("Material-UI" :> "mui") @@ ("MUI" :> "mui")
    @@ ("Chakra UI" :> "chakra") @@ ("Ant Design" :> "antdesign")
    @@ ("Flutter" :> "flutter") @@ ("React Native" :> "reactnative")
    @@ ("Expo" :> "expo") @@ ("Ionic" :> "ionic")

\* Manifest dependency -> badge key.
DEPENDENCY_MAP ==
    ("react" :> "react") @@ ("react-dom" :> "react") @@ ("vue" :> "vue")
    @@ ("@angular/core" :> "angular") @@ ("svelte" :> "svelte") @@ ("next" :> "next")
    @@ ("nuxt" :> "nuxt") @@ ("gatsby" :> "gatsby") @@ ("astro" :> "astro")
    @@ ("@remix-run/react" :> "remix") @@ ("solid-js" :> "solid")
    @@ ("preact" :> "preact") @@ ("alpinejs" :> "alpine") @@ ("htmx.org" :> "htmx")
    @@ ("express" :> "express") @@ ("@nestjs/core" :> "nestjs")
    @@ ("fastify" :> "fastify") @@ ("koa" :> "koa") @@ ("tailwindcss" :> "tailwind")
    @@ ("bootstrap" :> "bootstrap") @@ ("@mui/material" :> "mui")
    @@ ("@chakra-ui/react" :> "chakra") @@ ("antd" :> "antdesign")
    @@ ("@radix-ui/react-dialog" :> "radix") @@ ("styled-components" :> "styled")
    @@ ("bulma" :> "bulma") @@ ("mongoose" :> "mongodb") @@ ("mongodb" :> "mongodb")
    @@ ("pg" :> "postgresql") @@ ("mysql2" :> "mysql") @@ ("better-sqlite3" :> "sqlite")
    @@ ("sqlite3" :> "sqlite") @@ ("redis" :> "redis") @@ ("ioredis" :> "redis")
    @@ ("@supabase/supabase-js" :> "supabase") @@ ("firebase" :> "firebase")
    @@ ("@prisma/client" :> "prisma") @@ ("prisma" :> "prisma") @@ ("jest" :> "jest")
    @@ ("mocha" :> "mocha") @@ ("cypress" :> "cypress")
    @@ ("@playwright/test" :> "playwright") @@ ("vitest" :> "vitest")
    @@ ("webpack" :> "webpack") @@ ("vite" :> "vite") @@ ("rollup" :> "rollup")
    @@ ("esbuild" :> "esbuild") @@ ("parcel" :> "parcel") @@ ("eslint" :> "eslint")
    @@ ("prettier" :> "prettier") @@ ("@biomejs/biome" :> "biome")
    @@ ("react-native" :> "reactnative") @@ ("expo" :> "expo")
    @@ ("@ionic/react" :> "ionic") @@ ("openai" :> "openai")
    @@ ("langchain" :> "langchain") @@ ("@tensorflow/tfjs" :> "tensorflow")

BUILD_TOOL_MAP ==
    ("webpack" :> "webpack") @@ ("vite" :> "vite") @@ ("rollup" :> "rollup")
    @@ ("esbuild" :> "esbuild") @@ ("parcel" :> "parcel") @@ ("gulp" :> "gulp")
    @@ ("grunt" :> "grunt")

PACKAGE_MANAGER_MAP ==
    ("npm" :> "npm") @@ ("yarn" :> "yarn") @@ ("pnpm" :> "pnpm") @@ ("pip" :> "pip")
    @@ ("cargo" :> "cargo")

\* map[k], or undefined
NoKey == "undefined"

Lookup(map, k) == IF k \in DOMAIN map THEN map[k] ELSE NoKey

getCategoryForKey(key) ==
    IF key \in
         {"javascript", "typescript", "python", "java", "go", "rust", "ruby", "php",
          "csharp", "cpp", "c", "swift", "kotlin", "dart", "html", "css", "sass", "lua",
          "perl", "r", "scala", "elixir", "haskell", "clojure"}
    THEN "language"
    ELSE IF key \in
         {"mongodb", "postgresql", "mysql", "sqlite", "redis", "supabase", "firebase",
          "prisma", "dynamodb", "elasticsearch", "neo4j", "cassandra", "couchdb",
          "mariadb"}
    THEN "database"
    ELSE IF key \in
         {"aws", "azure", "gcp", "vercel", "netlify", "heroku", "digitalocean",
          "cloudflare", "railway", "render"}
    THEN "cloud"
    ELSE IF key \in
         {"docker", "kubernetes", "git", "github", "gitlab", "actions", "jenkins",
          "circleci", "nginx", "apache", "webpack", "vite", "rollup", "esbuild",
          "parcel", "gulp", "grunt", "eslint", "prettier", "biome", "npm", "yarn",
          "pnpm", "pip", "cargo"}
    THEN "tool"
    ELSE "framework"

Badge(label, category) == [label |-> label, category |-> category]

\* createBadge(key), for a key of TECH_BADGES
createBadge(key) == Badge(TECH_BADGES[key], getCategoryForKey(key))

\* The badges so far and the keys already added.
NoBadges == [badges |-> <<>>, addedKeys |-> {}]

\* Mutant of addBadge: the set of added keys is not consulted.
addBadgeAgain(acc, key) ==
    IF key \in DOMAIN TECH_BADGES
    THEN [badges |-> Append(acc.badges, createBadge(key)),
          addedKeys |-> acc.addedKeys \cup {key}]
    ELSE acc

addBadge(acc, key) ==
    IF key \notin acc.addedKeys /\ key \in DOMAIN TECH_BADGES
    THEN [badges |-> Append(acc.badges, createBadge(key)),
          addedKeys |-> acc.addedKeys \cup {key}]
    ELSE acc

\* if (key) addBadge(key), for each key of the list in turn
RECURSIVE AddAll(_, _)
AddAll(acc, keys) ==
    IF keys = <<>> THEN acc
    ELSE AddAll(IF Head(keys) = NoKey THEN acc ELSE addBadge(acc, Head(keys)), Tail(keys))

\* String.toLowerCase on the tool and package-manager names.
ToLowerCase(name) ==
    CASE name = "Webpack" -> "webpack"
      [] name = "Vite" -> "vite"
      [] name = "Rollup" -> "rollup"
      [] name = "Parcel" -> "parcel"
      [] name = "Make" -> "make"
      [] name = "CMake" -> "cmake"
      [] OTHER -> name

\* Object.keys({...dependencies, ...devDependencies}): the dependencies in
\* manifest order (npm writes them sorted by name), then the devDependencies
\* that are not dependencies as well.
DependencyOrder == <<"electron", "express", "next", "react", "react-dom", "react-native", "vite">>

InOrder(names) == SelectSeq(DependencyOrder, LAMBDA d : d \in names)

DependencyKeys(pkg) ==
    IF pkg.present
    THEN InOrder(pkg.dependencies) \o InOrder(pkg.devDependencies \ pkg.dependencies)
    ELSE <<>>

\* f.path.toLowerCase().includes('dockerfile') / f.path.includes('.github/workflows')
PathContains(name, part) ==
    CASE part = "dockerfile" -> name \in {"Dockerfile"}
      [] OTHER -> FALSE

generateAllBadges(i, detected) ==
    LET pkg == i.packageJson
        languageKey(lang) ==
            IF Lookup(BADGE_LANGUAGE_MAP, lang.name) # NoKey
            THEN Lookup(BADGE_LANGUAGE_MAP, lang.name)
            ELSE Lookup(BADGE_LANGUAGE_MAP, BaseName(lang.name))
        frameworkKey(fw) == Lookup(FRAMEWORK_MAP, fw.name)
        dependencyKey(dep) == Lookup(DEPENDENCY_MAP, dep)
        toolKey(tool) == Lookup(BUILD_TOOL_MAP, ToLowerCase(tool))
        keys ==
            [k \in 1..Len(detected.languages) |-> languageKey(detected.languages[k])]
            \o [k \in 1..Len(detected.frameworks) |-> frameworkKey(detected.frameworks[k])]
            \o [k \in 1..Len(DependencyKeys(pkg)) |-> dependencyKey(DependencyKeys(pkg)[k])]
            \o [k \in 1..Len(detected.buildTools) |-> toolKey(detected.buildTools[k])]
            \o (IF detected.packageManager # NoPackageManager
                THEN <<Lookup(PACKAGE_MANAGER_MAP, ToLowerCase(detected.packageManager))>>
                ELSE <<>>)
            \o (IF HasField(pkg, "engines.node") THEN <<"node">> ELSE <<>>)
            \o (IF \E f \in i.files : PathContains(f.name, "dockerfile")
                THEN <<"docker">> ELSE <<>>)
            \o (IF \E f \in i.files : PathContains(f.name, ".github/workflows")
                THEN <<"actions">> ELSE <<>>)
    IN  AddAll(NoBadges, keys).badges
        \o (IF HasField(pkg, "license") THEN <<Badge("License", "meta")>> ELSE <<>>)
        \o (IF HasField(pkg, "version") THEN <<Badge("Version", "meta")>> ELSE <<>>)
        \o <<Badge("PRs Welcome", "meta")>>

\* Framework names a caller-supplied DetectionResult may carry.
GivenNames == {"Ionic", "Tauri", "Remix", "FastAPI", "React", "React Native", "Express.js"}

\* A DetectionResult that carries the given frameworks and nothing else.
DetectionResult(frameworks) ==
    [languages |-> <<>>, frameworks |-> frameworks, packageManager |-> NoPackageManager,
     buildTools |-> <<>>, testFrameworks |-> <<>>]

GivenDetections ==
    {DetectionResult(<<>>)}
    \cup {DetectionResult(<<Framework(a, 100)>>) : a \in GivenNames}
    \cup {DetectionResult(<<Framework(a, 100), Framework(b, 100)>>) :
            a \in GivenNames, b \in GivenNames}

NoDetection == DetectionResult(<<Framework("none", 0)>>)

NoResult == ProjectTypeResult("none", "", 0, <<>>)

\* The webview computes the detection of the scanned project ...
DetectAll ==
    /\ detection = NoDetection
    /\ detection' = detectAll(info)
    /\ UNCHANGED <<info, result, badges, outsideCls>>

\* ... while detectProjectType itself accepts any DetectionResult.
AnyDetection(d) ==
    /\ detection = NoDetection
    /\ detection' = d
    /\ UNCHANGED <<info, result, badges, outsideCls>>

Classify ==
    /\ detection # NoDetection
    /\ result = NoResult
    /\ result' = detectProjectType(info, detection)
    /\ UNCHANGED <<info, detection, badges, outsideCls>>

\* The badge list of the sidebar and of the offline document.
GenerateBadges ==
    /\ detection # NoDetection
    /\ badges = <<>>
    /\ badges' = generateAllBadges(info, detection)
    /\ UNCHANGED <<info, detection, result, outsideCls>>

InitCls ==
    /\ info \in ProjectInfos
    /\ detection = NoDetection
    /\ result = NoResult
    /\ badges = <<>>
    /\ InitSidebar

NextCls ==
    \/ DetectAll
    \/ \E d \in GivenDetections : AnyDetection(d)
    \/ Classify

(***************************************************************************)
(* Specifications                                                          *)
(***************************************************************************)
\* Largest number of source files of a listed project.
MaxFiles == 8

\* Largest number of package-manager marker files of a listed project.
MaxPackageFiles == 3

\* One source file name per extension of the listed projects.
SourceNames == <<"util.js", "App.jsx", "types.ts", "util.py", "main.go", "lib.rs", "style.css">>

\* The marker files detectPackageManager looks for.
PackageFiles ==
    {"pnpm-lock.yaml", "yarn.lock", "package-lock.json", "bun.lockb", "package.json",
     "requirements.txt", "Pipfile", "Cargo.toml", "go.mod", "Gemfile", "composer.json",
     "pom.xml", "build.gradle"}

\* The ways to give k extensions file counts that add up to at most budget.
RECURSIVE FileCounts(_, _)
FileCounts(k, budget) ==
    IF k = 0 THEN {<<>>}
    ELSE UNION {{<<c>> \o v : v \in FileCounts(k - 1, budget - c)} : c \in 0..budget}

\* A project with counts[k] files named SourceNames[k] (in different
\* directories), listed in the order of SourceNames or in the reverse order,
\* and possibly a directory whose name carries a source extension.
SourceListing(counts, reversed, withDirectory) ==
    LET n == Len(SourceNames)
        place(k) == (IF reversed THEN n + 1 - k ELSE k) * (MaxFiles + 1)
        files == {ProjectFile(SourceNames[k], FALSE, place(k) + c) :
                    k \in 1..n, c \in 1..MaxFiles} 
    IN  [files |-> {f \in files :
                      \E k \in 1..n : f.name = SourceNames[k]
                                      /\ f.index - place(k) \in 1..counts[k]}
                   \cup (IF withDirectory THEN {ProjectFile("vendor.js", TRUE, 0)} ELSE {}),
         packageJson |-> readPackageJson({}),
         configFiles |-> {}]

\* A project that holds the given marker files at its root.
PackageListing(names) ==
    [files |-> {ProjectFile(n, FALSE, Position(n)) : n \in names},
     packageJson |-> readPackageJson(IF "package.json" \in names
                                     THEN {<<"manifest", "package.json">>} ELSE {}),
     configFiles |-> names \cap CONFIG_FILES]

ListedInfos ==
    {SourceListing(counts, reversed, withDirectory) :
        counts \in FileCounts(Len(SourceNames), MaxFiles),
        reversed \in BOOLEAN, withDirectory \in BOOLEAN}
    \cup {PackageListing(names) :
            names \in {ns \in SUBSET PackageFiles : Cardinality(ns) <= MaxPackageFiles}}

(***************************************************************************)
(* The scan of a folder: loadGitignore and scanDirectory                   *)
(***************************************************************************)
\* const ALWAYS_EXCLUDE = [...]
ALWAYS_EXCLUDE ==
    <<"node_modules", ".git", ".env", ".env.local", ".env.development",
      ".env.production", ".env.test", ".DS_Store", "Thumbs.db", ".vscode", ".idea",
      "dist", "build", "out", ".next", ".nuxt", "coverage", ".nyc_output", "*.log",
      "*.lock", "package-lock.json", "yarn.lock", "pnpm-lock.yaml",
      ".readme-generator">>

\* The names a scanned folder may hold at its root, besides .gitignore
DiskNames ==
    {"package.json", "package-lock.json", "yarn.lock", "pnpm-lock.yaml", "bun.lockb",
     "Cargo.toml", "server.js"}

\* The number of those names a scanned folder holds
MaxDiskFiles == 3

\* Lines a .gitignore may hold
GitignoreLines == {"dist", "*.lock", "!*.lock", "!yarn.lock", "!pnpm-lock.yaml"}

\* The number of lines of a .gitignore
MaxGitignoreLines == 2

\* A line as the ignore package reads it: a leading ! makes the rule a
\* negation of the pattern that follows.
ParseLine(line) ==
    CASE line = "!*.lock"        -> [negative |-> TRUE, pattern |-> "*.lock"]
      [] line = "!yarn.lock"     -> [negative |-> TRUE, pattern |-> "yarn.lock"]
      [] line = "!pnpm-lock.yaml" -> [negative |-> TRUE, pattern |-> "pnpm-lock.yaml"]
      [] OTHER                   -> [negative |-> FALSE, pattern |-> line]

\* A pattern without a slash matches a name at any depth: *.x matches the
\* names that end in .x, any other pattern of the list matches the name
\* equal to it.
PatternMatches(pattern, name) ==
    IF pattern = "*.lock" THEN name \in {"yarn.lock", "Cargo.lock"}
    ELSE IF pattern = "*.log" THEN FALSE
    ELSE name = pattern

\* loadGitignore: ig.add(ALWAYS_EXCLUDE), then ig.add(the content of
\* .gitignore) when the file exists; the rules in the order they were added.
loadGitignore(lines) ==
    [k \in 1..Len(ALWAYS_EXCLUDE) |-> ParseLine(ALWAYS_EXCLUDE[k])]
        \o [k \in 1..Len(lines) |-> ParseLine(lines[k])]

\* ig.ignores(relativePath): the rules are tried in order and the last one
\* that matches decides; a negation re-includes.
RECURSIVE IgnoredAfter(_, _, _)
IgnoredAfter(rules, k, name) ==
    IF k = 0 THEN FALSE
    ELSE IF PatternMatches(rules[k].pattern, name) THEN ~rules[k].negative
    ELSE IgnoredAfter(rules, k - 1, name)

Ignores(rules, name) == IgnoredAfter(rules, Len(rules), name)

\* scanDirectory at the root: every entry that is not ignored
scanDirectory(names, ig) ==
    {ProjectFile(n, FALSE, IF n = ".gitignore" THEN 0 ELSE Position(n)) :
        n \in {d \in names : ~Ignores(ig, d)}}

\* scanWorkspace of a folder that holds the given names and, when hasGitignore,
\* a .gitignore with the given lines.
scanFolder(names, hasGitignore, lines) ==
    LET ig == loadGitignore(IF hasGitignore THEN lines ELSE <<>>)
        files == scanDirectory(names \cup (IF hasGitignore THEN {".gitignore"} ELSE {}), ig)
    IN  [files |-> files,
         packageJson |-> readPackageJson(IF "package.json" \in names
                                         THEN {<<"manifest", "package.json">>} ELSE {}),
         configFiles |-> {f.name : f \in {x \in files : x.name \in CONFIG_FILES}}]

Gitignores ==
    UNION {[1..n -> GitignoreLines] : n \in 0..MaxGitignoreLines}

Folders == {names \in SUBSET DiskNames : Cardinality(names) <= MaxDiskFiles}

ScannedInfos ==
    {scanFolder(names, hasGitignore, lines) :
        names \in Folders, hasGitignore \in BOOLEAN, lines \in Gitignores}

\* What a project scanned for its badges may hold.
BadgeMarks ==
    Marks
    \cup {<<"dependency", "react-dom">>, <<"devDependency", "vite">>,
          <<"devDependency", "react">>, <<"file", "Dockerfile">>, <<"file", "package.json">>}
    \cup {<<"field", f>> : f \in {"license", "version", "engines.node"}}

InitBadges ==
    /\ InitGen
    /\ InitHist
    /\ info \in {scanWorkspace(marks) :
                    marks \in {m \in SUBSET BadgeMarks : Cardinality(m) <= MaxMarks}}
    /\ detection = NoDetection
    /\ result = NoResult
    /\ badges = <<>>
    /\ InitSidebar

NextBadges ==
    \/ DetectAll
    \/ GenerateBadges

\* detectAll and detectProjectType applied to a project given as a listing.
InitDetect ==
    /\ InitGen
    /\ InitHist
    /\ info \in ListedInfos
    /\ detection = NoDetection
    /\ result = NoResult
    /\ badges = <<>>
    /\ InitSidebar

\* detectAll and detectProjectType applied to a folder scanned from disk.
InitScan ==
    /\ InitGen
    /\ InitHist
    /\ info \in ScannedInfos
    /\ detection = NoDetection
    /\ result = NoResult
    /\ badges = <<>>
    /\ InitSidebar

NextDetect ==
    \/ DetectAll
    \/ Classify

\* No project scanned yet (an empty folder), for the runs that exercise the
\* other components.
InitNoProject ==
    /\ info = scanWorkspace({})
    /\ detection = NoDetection
    /\ result = NoResult
    /\ badges = <<>>
    /\ InitSidebar

\* Every run starts with no credential, an empty history and no call in
\* flight; the classifier runs start from any scanned project.
Init == InitGen /\ InitHist /\ InitNoProject

InitClassify == InitGen /\ InitHist /\ InitCls

SpecGen == Init /\ [][NextGen]_vars

SpecHuggingFace == Init /\ [][NextHuggingFace]_vars

\* The steps of a call in flight.  The event loop runs every continuation
\* that is ready, the credential read settles, and every backend request
\* eventually returns or fails: a response arrives, the stream ends, or the
\* fetch or the read throws.
CallStep ==
    \/ ClientKeyReadRejects
    \/ ClientKeyMissing
    \/ ClientBegin
    \/ Attempt
    \/ \E status \in HttpErrors, busy \in BOOLEAN : ErrorResponse(status, busy)
    \/ Thrown
    \/ \E text \in GroqTexts : GroqOk(text)
    \/ NoBody
    \/ StreamOpen
    \/ StreamDone

FairGen == SpecGen /\ WF_vars(CallStep)

SpecHist == Init /\ [][NextHist]_vars

SpecClassify == InitClassify /\ [][NextCls]_vars

SpecDetect == InitDetect /\ [][NextDetect]_vars

SpecScan == InitScan /\ [][NextDetect]_vars

SpecBadges == InitBadges /\ [][NextBadges]_vars

InitSave ==
    /\ InitGen
    /\ InitNoProject
    /\ now = MaxSaved + 1
    /\ store \in SUBSET SavedVersions
    /\ readme \in {NoReadme} \cup {[exists |-> TRUE, content |-> c] : c \in Contents}
    /\ last = NoOp
    /\ specials = 0
    /\ saves = NoSaves
    /\ retry = NoRetry
    /\ overlap = NoOverlap
    /\ posted = NoPosted

\* The step-by-step runs start from a history that is full or one short of it
InitSteps ==
    /\ InitGen
    /\ InitNoProject
    /\ \E n \in {MAX_VERSIONS - 1, MAX_VERSIONS} :
          /\ store = FullHistory(n)
          /\ now = n + 1
    /\ readme = NoReadme
    /\ last = NoOp
    /\ specials = 0
    /\ saves = NoSaves
    /\ retry = NoRetry
    /\ overlap = NoOverlap
    /\ posted = NoPosted

NextCommands ==
    \/ \E entered \in BOOLEAN : setApiKeyCmd(entered)
    \/ \E entered \in BOOLEAN : setHuggingFaceApiKeyCmd(entered)
    \/ \E empty \in BOOLEAN : handleSaveApiKey(empty)
    \/ \E name \in ProjectNames : generateReadme(name)
    \/ CallStep
    \/ \E kind \in {"blank", "text"} : StreamToken(kind)
    \/ Return

SpecCommands == Init /\ [][NextCommands]_vars

\* The key commands, the generate handler and the steps of the Groq client,
\* the only client the handler's calls select
NextGenerate ==
    \/ \E entered \in BOOLEAN : setApiKeyCmd(entered)
    \/ \E entered \in BOOLEAN : setHuggingFaceApiKeyCmd(entered)
    \/ \E empty \in BOOLEAN : handleSaveApiKey(empty)
    \/ \E ready \in BOOLEAN, name \in ProjectNames : handleGenerate(ready, name)
    \/ ClientKeyReadRejects
    \/ ClientKeyMissing
    \/ ClientBegin
    \/ Attempt
    \/ \E status \in HttpErrors, busy \in BOOLEAN : ErrorResponse(status, busy)
    \/ Thrown
    \/ \E text \in GroqTexts : GroqOk(text)
    \/ handleGenerateCallbacks

SpecGenerate == Init /\ [][NextGenerate]_vars

SpecOverlap == Init /\ [][NextOverlap]_vars

SpecRetry == Init /\ [][NextRetry]_vars

SpecCleanup == InitSteps /\ [][NextCleanup]_vars

SpecConcurrentSave == InitSteps /\ [][NextConcurrentSave]_vars

SpecSave == InitSave /\ [][NextSave]_vars

\* Listing the versions of any history of up to MaxSaved milliseconds
NextList == \E order \in DirectoryOrders : getVersions(order)

SpecList == InitSave /\ [][NextList]_vars

(***************************************************************************)
(* Properties of the generation calls                                      *)
(***************************************************************************)
Count(l, cb) == Cardinality({i \in 1..Len(l) : l[i].cb = cb})

Terminals(l) == {i \in 1..Len(l) : l[i].cb # "onToken"}

\* Every onToken of the log comes before every terminal callback.
TokensFirst(l) ==
    \A i, j \in 1..Len(l) : (l[i].cb = "onToken" /\ l[j].cb # "onToken") => i < j

OfflineDocument == generateOfflineReadme(projectName)

Exhausted ==
    /\ client \in Clients
    /\ Len(reqs) = ModelCount(client)
    /\ resp.status \in {429, 404, -1}

\* C2: with a credential configured and every candidate tried and failed,
\* generateReadme calls onError and then still calls onComplete with the
\* offline document.
C2_OfflineAfterExhaustion ==
    (entry = "generateReadme" /\ pc = "done" /\ Exhausted) =>
        /\ Len(log) >= 2
        /\ log[Len(log) - 1].cb = "onError"
        /\ log[Len(log)] = OnComplete(OfflineDocument)

\* C3: generateReadme with neither credential stored issues no backend
\* request, calls neither onError nor onToken, and ends in exactly one
\* onComplete carrying the non-empty offline document.
C3_OfflineWithoutCredential ==
    (entry = "generateReadme" /\ ~hadCredential) =>
        /\ pc = "done"
        /\ reqs = <<>>
        /\ log = <<OnComplete(OfflineDocument)>>
        /\ ~IsBlank(OfflineDocument)
        /\ OfflineDocument # EmptyText

\* C3 witness: such a call has returned, for a project without a name.
C3_Witness ==
    /\ entry = "generateReadme"
    /\ ~hadCredential
    /\ pc = "done"
    /\ projectName = ""
    /\ Len(log) = 1

\* C6: a 401 response is fatal whatever its body says: the call ends with
\* onError and no further model is tried or requested.
C6_AuthFailureIsFatal ==
    resp.status = 401 =>
        /\ pc = "done"
        /\ log[Len(log)].cb = "onError"

\* C7: the first request of every client call goes to the first model of the
\* list, whatever model the previous call ended on.
C7_FirstRequestToFirstModel ==
    reqs # <<>> => reqs[1] = 0

\* C7 witness: the earlier calls left the cursor of this client on a later
\* model and this call has issued its first request.
C7_Witness ==
    /\ client \in Clients
    /\ cursorAtEntry > 0
    /\ Len(reqs) = 1

(***************************************************************************)
(* Properties of the version store                                         *)
(***************************************************************************)
\* C4: the store never holds more than MAX_VERSIONS versions once a save has
\* returned; a save that adds a version to a full store leaves exactly
\* MAX_VERSIONS, every version it removed is at most as recent as every
\* version it kept, and the removed version is gone.
C4_VersionRetention ==
    /\ Cardinality(store) <= MAX_VERSIONS
    /\ (last.op = "save" /\ last.before = MAX_VERSIONS /\ last.fresh) =>
          /\ Cardinality(store) = MAX_VERSIONS
          /\ Cardinality(last.evicted) = 1
          /\ last.evicted \cap store = {}
          /\ \A e \in last.evicted, k \in store : e.ts <= k.ts

\* C4 witness: a 21st version was saved and one version was evicted.
C4_Witness ==
    /\ last.op = "save"
    /\ last.before = MAX_VERSIONS
    /\ last.fresh
    /\ last.evicted # {}

\* C5: saveVersion(root, X) followed immediately by rollbackToVersion of that
\* version returns success and leaves README.md equal to X, for every X.
C5_RollbackRoundTrip ==
    last.op = "rollback" =>
        /\ last.ok
        /\ readme = [exists |-> TRUE, content |-> last.content]

(***************************************************************************)
(* Properties of the project-type classifier                               *)
(***************************************************************************)
Classified == result # NoResult

LibraryFields == libraryScoreFieldsOnly(info.packageJson)

\* The condition of the k-th rule of the decision list, each taken alone.
RuleHolds(k) ==
    LET pkg == info.packageJson
        fs == detection.frameworks
    IN  CASE k = 1 -> hasWorkspaces(info)
          [] k = 2 -> SomeFramework(fs, mobileFrameworks)
          [] k = 3 -> SomeFramework(fs, desktopFrameworks)
          [] k = 4 -> HasField(pkg, "bin") \/ hasCliKeyword(pkg)
          [] k = 5 -> ~isPrivate(pkg) /\ LibraryFields >= 1
          [] k = 6 -> SomeFramework(fs, fullstackFrameworks)
          [] k = 7 -> SomeFramework(fs, frontendFrameworks) /\ SomeFramework(fs, backendFrameworks)
          [] k = 8 -> SomeFramework(fs, frontendFrameworks)
          [] k = 9 -> SomeFramework(fs, backendFrameworks)
          [] k = 10 -> \/ \E f \in info.files : f.name = "public" /\ f.isDirectory
                       \/ HasFile(info, {"index.html"})
                       \/ hasServerFile(info)
          [] OTHER -> TRUE

RuleArchetypes ==
    <<{"monorepo"}, {"mobile"}, {"desktop"}, {"cli"}, {"library"}, {"fullstack"},
      {"fullstack"}, {"web-app"}, {"backend"}, {"web-app", "backend"}, {"unknown"}>>

RuleConfidences ==
    <<{90}, {95}, {95}, {85}, {80, 85, 90}, {90}, {85}, {85}, {85}, {60}, {30}>>

FirstRule == CHOOSE k \in 1..Len(RuleArchetypes) : RuleHolds(k) /\ \A j \in 1..(k - 1) : ~RuleHolds(j)

\* C8: the classification is a function of (ProjectInfo, DetectionResult) and
\* is the archetype of the first rule, in the order monorepo, mobile, desktop,
\* cli, library, fullstack meta-framework, frontend+backend, frontend, backend,
\* file-presence heuristic, unknown, whose condition holds; a project with a
\* workspaces manifest field and a mobile framework is a monorepo.
C8_FirstMatchDecisionList ==
    Classified =>
        /\ result = detectProjectType(info, detection)
        /\ result.type \in RuleArchetypes[FirstRule]
        /\ result.confidence \in RuleConfidences[FirstRule]
        /\ (HasField(info.packageJson, "workspaces")
            /\ SomeFramework(detection.frameworks, mobileFrameworks))
           => result.type = "monorepo"

C8_Witness ==
    /\ Classified
    /\ detection = detectAll(info)
    /\ HasField(info.packageJson, "workspaces")
    /\ SomeFramework(detection.frameworks, mobileFrameworks)
    /\ result.type = "monorepo"

\* C9 as stated: the library confidence is 0.7 plus 0.05 per present field of
\* main, types/typings, exports, so 0.75 with main alone.
C9_ConfidencePerField ==
    (Classified /\ result.type = "library") =>
        result.confidence = 70 + 5 * LibraryFields

\* C9: the library rule fires exactly when no earlier rule matches, the manifest
\* is not private and at least one of main, types/typings, exports is present;
\* its confidence is 0.75 plus 0.05 per present field (the non-private manifest
\* counts as one more point of the score): 0.80 with main alone, at most 0.90.
C9_LibraryConfidence ==
    Classified =>
        /\ result.type = "library" <=>
              /\ \A k \in 1..4 : ~RuleHolds(k)
              /\ ~isPrivate(info.packageJson)
              /\ LibraryFields >= 1
        /\ result.type = "library" => result.confidence = 75 + 5 * LibraryFields

C9_Witness ==
    /\ Classified
    /\ result.type = "library"
    /\ info.packageJson.fields = {"main"}
    /\ result.confidence = 80

\* The manifest of the React + Express scenario: react and express among the
\* dependencies and no workspace, mobile, desktop, bin / CLI-keyword or library
\* marker; the detection is the one detectAll computes.
ReactExpressManifest ==
    /\ Classified
    /\ detection = detectAll(info)
    /\ Dep(info, "react") /\ Dep(info, "express")
    /\ ~hasWorkspaces(info)
    /\ ~SomeFramework(detection.frameworks, mobileFrameworks)
    /\ ~SomeFramework(detection.frameworks, desktopFrameworks)
    /\ ~HasField(info.packageJson, "bin") /\ ~hasCliKeyword(info.packageJson)
    /\ LibraryFields = 0

FullstackByBothRule ==
    /\ result.type = "fullstack"
    /\ result.confidence = 85
    /\ result.reason = <<"Has both frontend and backend frameworks">>

\* C10 as stated: such a manifest is classified fullstack at 0.85 through the
\* frontend-and-backend rule.
C10_ReactExpressIsFullstack ==
    ReactExpressManifest => FullstackByBothRule

\* C10: such a manifest, when no full-stack meta-framework (Next.js, Nuxt.js) is
\* detected as well, is classified fullstack at 0.85 through the
\* frontend-and-backend rule; with a meta-framework it is fullstack at 0.90
\* through the meta-framework rule.
C10_ReactExpressWithoutMetaFramework ==
    ReactExpressManifest =>
        IF SomeFramework(detection.frameworks, fullstackFrameworks)
        THEN result.type = "fullstack" /\ result.confidence = 90
        ELSE FullstackByBothRule

C10_Witness ==
    /\ ReactExpressManifest
    /\ ~SomeFramework(detection.frameworks, fullstackFrameworks)
    /\ FullstackByBothRule

(***************************************************************************)
(* Properties of the technology detector                                   *)
(***************************************************************************)
Detected == detection # NoDetection /\ detection = detectAll(info)

\* The priority order of detectPackageManager: marker files and the manager
\* they stand for.
PackageManagerPriority ==
    <<[markers |-> {"pnpm-lock.yaml"}, manager |-> "pnpm"],
      [markers |-> {"yarn.lock"}, manager |-> "yarn"],
      [markers |-> {"package-lock.json"}, manager |-> "npm"],
      [markers |-> {"bun.lockb"}, manager |-> "bun"],
      [markers |-> {"package.json"}, manager |-> "npm"],
      [markers |-> {"requirements.txt", "Pipfile"}, manager |-> "pip"],
      [markers |-> {"Cargo.toml"}, manager |-> "cargo"],
      [markers |-> {"go.mod"}, manager |-> "go mod"],
      [markers |-> {"Gemfile"}, manager |-> "bundler"],
      [markers |-> {"composer.json"}, manager |-> "composer"],
      [markers |-> {"pom.xml"}, manager |-> "maven"],
      [markers |-> {"build.gradle"}, manager |-> "gradle"]>>

Hits == {k \in 1..Len(PackageManagerPriority) :
            PackageManagerPriority[k].markers \cap FileNames(info) # {}}

\* C11: detectPackageManager returns the manager of the first marker present,
\* in the order pnpm, yarn, npm lockfile, bun, bare package.json, pip markers,
\* cargo, go modules, bundler, composer, maven, gradle, and null when no
\* marker is present; pnpm-lock.yaml wins over package-lock.json.
C11_PackageManagerPriority ==
    Detected =>
        /\ Hits = {} => detection.packageManager = NoPackageManager
        /\ Hits # {} =>
              detection.packageManager =
                  PackageManagerPriority[CHOOSE k \in Hits : \A j \in Hits : k <= j].manager
        /\ "pnpm-lock.yaml" \in FileNames(info) => detection.packageManager = "pnpm"

C11_Witness ==
    /\ Detected
    /\ {"pnpm-lock.yaml", "package-lock.json"} \subseteq FileNames(info)
    /\ detection.packageManager = "pnpm"

RECURSIVE SumFileCount(_)
SumFileCount(ls) == IF ls = <<>> THEN 0 ELSE Head(ls).fileCount + SumFileCount(Tail(ls))

\* The distinct languages of the recognized files, after merging variants.
LanguagesPresent == {BaseName(LANGUAGE_MAP[extension(f.name)]) : f \in Recognized(info)}

\* C12 as stated: the fileCount values returned by detectLanguages sum to the
\* number N of non-directory files of a recognized extension, for every number
\* of distinct languages.
C12_FileCountsSumToN ==
    Detected => SumFileCount(detection.languages) = Cardinality(Recognized(info))

\* C12: the fileCount values returned by detectLanguages sum to N when the
\* files span at most 5 distinct languages (after merging variants); with more,
\* only 5 entries are returned and their fileCount values sum to less than N.
C12_FileCountsSumOfTopFive ==
    Detected =>
        IF Cardinality(LanguagesPresent) <= TopLanguages
        THEN SumFileCount(detection.languages) = Cardinality(Recognized(info))
        ELSE /\ Len(detection.languages) = TopLanguages
             /\ SumFileCount(detection.languages) < Cardinality(Recognized(info))

C12_Witness ==
    /\ Detected
    /\ Cardinality(LanguagesPresent) = TopLanguages
    /\ {"util.js", "App.jsx", "vendor.js"} \subseteq FileNames(info)
    /\ SumFileCount(detection.languages) = Cardinality(Recognized(info))
    /\ Cardinality(Recognized(info)) > TopLanguages

\* C13: no LanguageStat returned by detectLanguages has a percentage above 100,
\* also when variants of one language are merged by adding their rounded
\* percentages.
C13_PercentageAtMost100 ==
    Detected => \A k \in 1..Len(detection.languages) : detection.languages[k].percentage <= 100

(***************************************************************************)
(* Properties of the badge list                                            *)
(***************************************************************************)
BadgesGenerated == badges # <<>>

\* The positions of the badges with the given label.
BadgesLabelled(label) == {k \in 1..Len(badges) : badges[k].label = label}

\* C14: each technology badge (one label per badge key) appears at most once in
\* the list of generateAllBadges, whichever signals detected it; a React
\* framework match together with react and react-dom dependencies yields
\* exactly one React badge.
C14_BadgeDeduplication ==
    BadgesGenerated =>
        /\ \A j, k \in 1..Len(badges) : badges[j].label = badges[k].label => j = k
        /\ (/\ SomeFramework(detection.frameworks, {"React"})
            /\ Dep(info, "react"))
           => Cardinality(BadgesLabelled("React")) = 1

C14_Witness ==
    /\ BadgesGenerated
    /\ SomeFramework(detection.frameworks, {"React"})
    /\ Dep(info, "react") /\ Dep(info, "react-dom")
    /\ Cardinality(BadgesLabelled("React")) = 1

(***************************************************************************)
(* Properties of regenerateSection                                         *)
(***************************************************************************)
\* C15: regenerateSection refuses, with one onError and no backend request, if
\* and only if neither credential is stored; with a Groq key or an OpenRouter
\* key stored it dispatches to the backend generateReadme would select in the
\* same credential state.
C15_SectionRefusesOnlyWithoutCredential ==
    [][(pc = "idle" /\ entry' = "regenerateSection") =>
          IF ~groqKey /\ ~orKey
          THEN /\ pc' = "done"
               /\ reqs' = <<>>
               /\ Count(log', "onError") = 1 /\ Len(log') = 1
          ELSE /\ pc' = "entered"
               /\ log' = <<>>
               /\ client' = IF useGroq THEN "groq" ELSE "openrouter"]_vars

(***************************************************************************)
(* Properties of the sidebar handlers                                      *)
(***************************************************************************)
\* C16: handleSave writes a README.md that exists only after the user picked
\* Overwrite, the Compare and Cancel choices leave README.md as it was, and
\* handleRollback writes README.md only after the user picked Restore.
C16_WritesOnlyAfterConfirmation ==
    /\ (ui.handler = "handleSave" /\ ui.existed
            /\ (ui.wrote \/ readme # ui.before)) => ui.answer = "overwrite"
    /\ (ui.handler = "handleSave" /\ ui.answer \in {"diff", "cancel"}) =>
            (~ui.wrote /\ readme = ui.before)
    /\ (ui.handler = "handleRollback" /\ (ui.wrote \/ readme # ui.before)) =>
            ui.answer = "Restore"

\* C16 witness: README.md existed, the user picked Compare for a content
\* that differs from it, the comparison was shown and README.md is as it was.
C16_Witness ==
    /\ ui.handler = "handleSave"
    /\ ui.existed
    /\ ui.answer = "diff"
    /\ ui.temp
    /\ ui.content # readme.content
    /\ readme = ui.before

\* An existing README.md was replaced after Overwrite.
C16_OverwriteReached ==
    /\ ui.handler = "handleSave"
    /\ ui.existed
    /\ ui.answer = "overwrite"
    /\ ui.wrote
    /\ readme # ui.before
    /\ readme.content = ui.content

\* README.md was restored from a stored version after Restore.
C16_RestoreReached ==
    /\ ui.handler = "handleRollback"
    /\ ui.answer = "Restore"
    /\ ui.wrote
    /\ readme # ui.before

(***************************************************************************)
(* Properties of the version store                                         *)
(***************************************************************************)
RollbackOps == {"rollback", "rollback-other"}

\* C17: rollbackToVersion changes only the live README.md: for every id,
\* stored or not, the history directory is the same before and after the
\* call, and a call that fails leaves README.md as it was.
C17_RollbackTouchesOnlyReadme ==
    [][last'.op \in RollbackOps =>
          /\ store' = store
          /\ ~last'.ok => readme' = readme
          /\ last'.ok => readme'.exists]_vars

\* C17 witness: a rollback to an id that no version has just failed, with
\* versions stored and a README.md that an earlier rollback wrote.
C17_Witness ==
    /\ last.op \in RollbackOps
    /\ ~last.ok
    /\ store # {}
    /\ readme.exists
    /\ readme.content # EmptyText

ListedIds == {last.listed[k].id : k \in 1..Len(last.listed)}

\* C18 as stated: the list getVersions returns has one entry per stored
\* file, the store is empty iff the list is, and the timestamps strictly
\* decrease along the list.
C18_ListedStrictlyNewestFirst ==
    last.op = "list" =>
        /\ Len(last.listed) = Cardinality(store)
        /\ ListedIds = {IdOf(f) : f \in store}
        /\ \A i, j \in 1..Len(last.listed) :
              i < j => last.listed[i].timestamp > last.listed[j].timestamp

\* C18 amended: getVersions returns exactly the stored versions, one entry
\* per stored file, with timestamps that never increase along the list
\* (versions saved in the same millisecond have equal timestamps), the empty
\* list when nothing is stored, and the call leaves the store and
\* README.md unchanged.
C18_ListedNewestFirst ==
    [][last'.op = "list" =>
          /\ store' = store
          /\ readme' = readme
          /\ Len(last'.listed) = Cardinality(store)
          /\ {last'.listed[k].id : k \in 1..Len(last'.listed)} = {IdOf(f) : f \in store}
          /\ \A k \in 1..Len(last'.listed) :
                \E f \in store : last'.listed[k] = ReadmeVersion(f)
          /\ \A i, j \in 1..Len(last'.listed) :
                i < j => last'.listed[i].timestamp >= last'.listed[j].timestamp
          /\ store = {} => last'.listed = <<>>]_vars

\* C18 witness: a list of at least three versions was returned, two of them
\* saved in the same millisecond and one in an earlier millisecond.
C18_Witness ==
    /\ last.op = "list"
    /\ Len(last.listed) >= 3
    /\ Len(last.listed) = Cardinality(store)
    /\ \E i, j \in 1..Len(last.listed) :
          i < j /\ last.listed[i].timestamp = last.listed[j].timestamp
    /\ \E i, j \in 1..Len(last.listed) :
          i < j /\ last.listed[i].timestamp > last.listed[j].timestamp

(***************************************************************************)
(* The empty project                                                       *)
(***************************************************************************)
EmptyProject ==
    /\ info.files = {}
    /\ info.configFiles = {}
    /\ ~info.packageJson.present

\* C19: for a project with no files and no manifest, detectAll returns no
\* languages, no frameworks and the null package manager, and
\* detectProjectType returns unknown with confidence 0.3.
C19_EmptyProjectIsUnknown ==
    EmptyProject =>
        /\ detection # NoDetection =>
              /\ detection.languages = <<>>
              /\ detection.frameworks = <<>>
              /\ detection.packageManager = NoPackageManager
        /\ result # NoResult =>
              /\ result.type = "unknown"
              /\ result.confidence = 30

\* C19 witness: the empty project has been through detectAll and
\* detectProjectType.
C19_Witness ==
    /\ EmptyProject
    /\ detection = detectAll(info)
    /\ result # NoResult
    /\ result.type = "unknown"

(***************************************************************************)
(* Candidate order and transient failures                                  *)
(***************************************************************************)
\* The statuses of the transient failures: rate limit, model unavailable,
\* and -1 for a request that threw.
TransientStatuses == {429, 404, -1}

NewError == Count(log', "onError") > Count(log, "onError")

NewBlankCompletion ==
    /\ Count(log', "onComplete") > Count(log, "onComplete")
    /\ IsBlank(log'[Len(log')].arg)

\* C20: within one call the candidates are requested in strictly increasing
\* list order, each at most once; a rate limit, an unavailable model, an
\* empty response or a network error on a candidate that is not the last
\* raises no onError and moves to the next candidate; onError for such a
\* failure comes only when the last candidate has been tried.
C20_TransientFailuresAdvance ==
    [][/\ \A i, j \in 1..Len(reqs') : i < j => reqs'[i] < reqs'[j]
       /\ (pc = "awaiting" /\ resp'.status \in TransientStatuses /\ CanSwitch(client)) =>
             /\ ~NewError
             /\ pc' = "attempt"
             /\ cursor' = switchToNextModel(client)
       /\ (pc \in {"awaiting", "streaming"} /\ NewBlankCompletion) => ~CanSwitch(client)
       /\ (pc \in {"awaiting", "streaming"} /\ NewError
             /\ log'[Len(log')].arg \in {"rate-limit", "network"}) =>
             /\ ~CanSwitch(client)
             /\ Len(reqs) = ModelCount(client)]_vars

(***************************************************************************)
(* Termination of a generation call                                        *)
(***************************************************************************)
InFlight == pc \in {"entered", "attempt", "awaiting", "streaming"}

C22_NoBlankCompletion ==
    /\ \A i \in 1..Len(log) : log[i].cb = "onComplete" => ~IsBlank(log[i].arg)
    /\ (pc = "done" /\ client \in Clients /\ Len(reqs) = ModelCount(client)
           /\ resp.status = 200 /\ Count(log, "onComplete") = 0) =>
          Count(log, "onError") = 1

(***************************************************************************)
(* Order and names of the language list                                    *)
(***************************************************************************)
\* The number of recognized files of the language with the given base name
MergedCount(base) ==
    Cardinality({f \in Recognized(info) : BaseName(LANGUAGE_MAP[extension(f.name)]) = base})

\* The labels of the recognized files of the language with the given base name
Variants(base) ==
    {LANGUAGE_MAP[extension(f.name)] : f \in
        {g \in Recognized(info) : BaseName(LANGUAGE_MAP[extension(g.name)]) = base}}

\* C23: detectLanguages returns at most 5 entries, ordered by merged
\* fileCount non-increasing; they are the languages with the largest merged
\* file counts, and each entry merged from several variants carries the
\* canonical base name of its language, whichever variant has more files.
C23_TopFiveCanonical ==
    Detected =>
        LET ls == detection.languages
        IN  /\ Len(ls) <= TopLanguages
            /\ \A j, k \in 1..Len(ls) : j < k => ls[j].fileCount >= ls[k].fileCount
            /\ \A k \in 1..Len(ls) :
                  Cardinality(Variants(BaseName(ls[k].name))) > 1 =>
                      ls[k].name = BaseName(ls[k].name)
            /\ \A k \in 1..Len(ls) : ls[k].fileCount = MergedCount(BaseName(ls[k].name))
            /\ \A base \in LanguagesPresent :
                  (\A k \in 1..Len(ls) : BaseName(ls[k].name) # base) =>
                      \A k \in 1..Len(ls) : ls[k].fileCount >= MergedCount(base)

(***************************************************************************)
(* Retention cleanup, step by step                                         *)
(***************************************************************************)
Returns(p) == saves.call[p].pc = "cleaning" /\ saves'.call[p].pc = "returned"

\* The version of the call is stored under the id the call returns, with the
\* content the call was given.
Saved(c, files) ==
    /\ c.result = VersionId(c.ts, generateHash(c.content))
    /\ getVersionContent(files, c.result) = [found |-> TRUE, content |-> c.content]

\* C24: a failed deletion during the retention cleanup is swallowed:
\* saveVersion never throws from the cleanup, it returns the version it
\* wrote, that version is stored and readable; the store then holds at most
\* the 20 versions plus those whose deletion failed, and a save whose
\* deletions all succeed leaves at most 20.
C24_DeletionFailureSwallowed ==
    [][/\ saves'.call[1].pc # "threw"
       /\ Returns(1) =>
             /\ Saved(saves'.call[1], store')
             /\ Cardinality(store') <= MAX_VERSIONS + Cardinality(saves'.call[1].failed)
             /\ saves'.call[1].failed = {} => Cardinality(store') <= MAX_VERSIONS]_vars

\* C24 witness: a save has returned after a deletion failed, its version is
\* stored and the store holds more than 20 versions.
C24_Witness ==
    /\ saves.call[1].pc = "returned"
    /\ saves.call[1].failed # {}
    /\ Saved(saves.call[1], store)
    /\ Cardinality(store) > MAX_VERSIONS

\* A later save has trimmed the store after an earlier one could not.
C24_TrimmedLater ==
    /\ saves.started = MaxStarted
    /\ saves.call[1].pc = "returned"
    /\ saves.call[1].failed = {}
    /\ Cardinality(store) = MAX_VERSIONS
    /\ \E f \in store : f.ts = 1

ClaimedWait(k) ==
    IF k = 1 THEN 2000 ELSE IF k = 2 THEN 4000 ELSE IF k = 3 THEN 8000
    ELSE IF k = 4 THEN 16000 ELSE 30000

Finished == retry.pc \in {"returned", "threw"}

\* C25: fetchWithRetry makes at most maxRetries+1 requests, waits
\* min(2000 * 2^(k-1), 30000) ms before retry k, returns the first response
\* that is not a 429 (every earlier request was answered 429 or failed),
\* returns the 429 response itself when it comes on the final attempt, and
\* throws the last network error when the final attempt fails.
C25_RetryWithBackoff ==
    retry.pc # "idle" /\ 0 <= retry.maxRetries =>
        /\ Len(retry.seen) <= retry.maxRetries + 1
        /\ retry.waits = [k \in 1..Len(retry.waits) |-> ClaimedWait(k)]
        /\ Len(retry.waits) = (IF retry.pc = "fetching" \/ Finished
                               THEN retry.attempt
                               ELSE retry.attempt + 1)
        /\ Len(retry.seen) = (IF retry.pc = "fetching" THEN retry.attempt
                              ELSE retry.attempt + 1)
        /\ \A k \in 1..Len(retry.seen) :
              retry.seen[k] \in FetchStatuses \ {429} => (k = Len(retry.seen) /\ retry.pc = "returned")
        /\ retry.pc = "returned" =>
              /\ retry.response = retry.seen[Len(retry.seen)]
              /\ retry.response \in FetchStatuses
              /\ retry.response = 429 => Len(retry.seen) = retry.maxRetries + 1
        /\ retry.pc = "threw" =>
              /\ Len(retry.seen) = retry.maxRetries + 1
              /\ retry.seen[Len(retry.seen)] = NetworkError
              /\ retry.thrown = Len(retry.seen)

\* C25 witness: with the default maxRetries the fourth request is answered
\* 429 after waits of 2000, 4000 and 8000 ms, and that response is returned.
C25_Witness ==
    /\ retry.pc = "returned"
    /\ retry.maxRetries = MAX_RETRIES
    /\ retry.seen = <<429, NetworkError, 429, 429>>
    /\ retry.waits = <<2000, 4000, 8000>>
    /\ retry.response = 429

\* The last network error is thrown after the default four requests.
C25_ThrowReached ==
    /\ retry.pc = "threw"
    /\ retry.maxRetries = MAX_RETRIES
    /\ retry.seen = <<NetworkError, 429, NetworkError, NetworkError>>
    /\ retry.thrown = 4

(***************************************************************************)
(* Overlapping generation calls                                            *)
(***************************************************************************)
\* C26: each of two generation calls in flight at once on the Groq client
\* requests the candidates from the first one on, in list order, skipping
\* none and repeating none: its k-th request is for candidate k-1.
C26_OverlappingCallsKeepOrder ==
    \A p \in OverlapCalls :
        overlap[p].reqs = [k \in 1..Len(overlap[p].reqs) |-> k - 1]

\* Both calls are in flight and a candidate has been skipped.
C26_SkipReached ==
    /\ \A p \in OverlapCalls : overlap[p].pc = "awaiting"
    /\ overlap[1].reqs = <<0, 1>>
    /\ overlap[2].reqs = <<0, 2>>

\* Both calls are in flight and a candidate has been requested twice.
C26_RepeatReached ==
    /\ \A p \in OverlapCalls : overlap[p].pc = "awaiting"
    /\ overlap[1].reqs = <<0, 1, 2, 1>>

(***************************************************************************)
(* The stored provider                                                     *)
(***************************************************************************)
\* The step in which generateReadme reads the keys and the provider and
\* selects its branch
Dispatches == pc = "idle" /\ pc' # "idle" /\ entry' = "generateReadme"

\* C28: the commands and messages never store 'openrouter' as provider, so
\* the stored provider is unset or 'huggingface' and getApiProvider returns
\* 'huggingface'; generateReadme then selects Groq whenever a Groq key is
\* stored (also when an OpenRouter key is stored too) and OpenRouter only
\* when no Groq key is stored.
C28_ProviderAlwaysHuggingFace ==
    /\ [](provider \in {"unset", "huggingface"} /\ getApiProvider = "huggingface")
    /\ [][Dispatches =>
            /\ groqKey => client' = "groq"
            /\ client' = "openrouter" => (~groqKey /\ orKey)
            /\ client' = "groq" => groqKey]_vars

\* C28 witness: with both keys stored and the provider stored by the Groq
\* key command, generateReadme has selected the Groq client.
C28_Witness ==
    /\ groqKey /\ orKey
    /\ provider = "huggingface"
    /\ entry = "generateReadme"
    /\ client = "groq"
    /\ reqs = <<0>>

\* With only an OpenRouter key stored generateReadme has selected the
\* OpenRouter client.
C28_OpenRouterReached ==
    /\ ~groqKey /\ orKey
    /\ provider = "unset"
    /\ entry = "generateReadme"
    /\ client = "openrouter"
    /\ reqs = <<0>>

(***************************************************************************)
(* The generate button                                                     *)
(***************************************************************************)
\* A run of handleGenerate starts
GenerateRequested == posted.stage # "generating" /\ posted' # posted

C29_GeneratedReached ==
    /\ posted.stage = "returned"
    /\ posted.messages = <<"generating", "token", "generated">>
    /\ posted.saved
    /\ Cardinality(store) = 1

(***************************************************************************)
(* Lockfiles and the scanner                                               *)
(***************************************************************************)
Lockfiles == {"pnpm-lock.yaml", "yarn.lock", "package-lock.json"}

\* C30: the file list of a scanned project holds no pnpm-lock.yaml, yarn.lock
\* or package-lock.json, and detectPackageManager applied to it returns
\* neither 'pnpm' nor 'yarn'.
C30_LockfilesNeverScanned ==
    /\ FileNames(info) \cap Lockfiles = {}
    /\ detection # NoDetection => detection.packageManager \notin {"pnpm", "yarn"}

\* A scanned Node project with a re-included yarn.lock is reported as yarn.
C30_YarnReached ==
    /\ FileNames(info) = {".gitignore", "package.json", "yarn.lock"}
    /\ detection # NoDetection
    /\ detection.packageManager = "yarn"

\* Without a negation in .gitignore no lockfile is listed, and a Node
\* project is reported as npm, or as bun when bun.lockb is there.
C30_ExcludedWithoutNegation ==
    \A names \in Folders, hasGitignore \in BOOLEAN, lines \in Gitignores :
        (\A k \in 1..Len(lines) : ~ParseLine(lines[k]).negative \/ ~hasGitignore) =>
            LET i == scanFolder(names, hasGitignore, lines)
            IN  /\ FileNames(i) \cap Lockfiles = {}
                /\ "package.json" \in names =>
                      detectPackageManager(i) = (IF "bun.lockb" \in names THEN "bun" ELSE "npm")

====
